---- MODULE Spec2Model ----
(***************************************************************************)
(* Model of the comparison engine of enjalot/relative                      *)
(* (engine/converter.ts, data/units.ts, data/quantities.ts,                *)
(* data/conversions.ts).                                                   *)
(*                                                                         *)
(* Numbers.  A JavaScript number is modelled as an extended rational in    *)
(* decimal scientific form [n, d, e]: d > 0 is the finite value            *)
(* n/d * 10^e, with n/d in lowest terms, n not a multiple of 10 and d      *)
(* coprime to 10 (zero is [0, 1, 0]), so that every value has one          *)
(* representation; [0,0,0] is NaN, [1,0,0] is Infinity and [-1,0,0] is     *)
(* -Infinity.  Arithmetic is exact (no floating-point rounding);           *)
(* comparisons with NaN are false, as in IEEE.                             *)
(***************************************************************************)
EXTENDS Integers, Sequences, FiniteSets, TLC

VARIABLES inputNumber, inputUnitId, factorOverrides, entryOverrides, called, result

vars == <<inputNumber, inputUnitId, factorOverrides, entryOverrides, called, result>>

-----------------------------------------------------------------------------
(* Extended rationals *)

Abs(i) == IF i < 0 THEN -i ELSE i

Sign(i) == IF i < 0 THEN -1 ELSE IF i > 0 THEN 1 ELSE 0

RECURSIVE Gcd(_, _)
Gcd(a, b) == IF b = 0 THEN a ELSE Gcd(b, a % b)

NaN == [n |-> 0, d |-> 0, e |-> 0]

Infinity == [n |-> 1, d |-> 0, e |-> 0]

NegInfinity == [n |-> -1, d |-> 0, e |-> 0]

(* 10^k for 0 <= k <= 9 *)
RECURSIVE TenTo(_)
TenTo(k) == IF k <= 0 THEN 1 ELSE 10 * TenTo(k - 1)

(* The one representation of n/d * 10^e, for n/d in lowest terms, d > 0. *)
RECURSIVE Norm(_, _, _)
Norm(n, d, e) ==
  IF n = 0 THEN [n |-> 0, d |-> 1, e |-> 0]
  ELSE IF n % 10 = 0 THEN Norm(n \div 10, d, e + 1)
  ELSE IF d % 10 = 0 THEN Norm(n, d \div 10, e - 1)
  ELSE IF d % 2 = 0 THEN Norm(n * 5, d \div 2, e - 1)
  ELSE IF d % 5 = 0 THEN Norm(n * 2, d \div 5, e - 1)
  ELSE [n |-> n, d |-> d, e |-> e]

Rat(a, b) ==
  IF b = 0 THEN [n |-> Sign(a), d |-> 0, e |-> 0]
  ELSE LET g == Gcd(Abs(a), Abs(b))
       IN  Norm(Sign(b) * (a \div g), Abs(b) \div g, 0)

Int2Rat(i) == Norm(i, 1, 0)

IsNaN(x) == x.d = 0 /\ x.n = 0

IsFinite(x) == x.d > 0

Neg(x) == [n |-> -x.n, d |-> x.d, e |-> x.e]

(* -1, 0, 1 for a/b <, =, > c/d with a, c >= 0 and b, d > 0; by continued  *)
(* fractions, so that no product of the operands is formed.               *)
RECURSIVE CmpPos(_, _, _, _)
CmpPos(a, b, c, d) ==
  LET q1 == a \div b
      q2 == c \div d
      r1 == a % b
      r2 == c % d
  IN  IF q1 < q2 THEN -1
      ELSE IF q1 > q2 THEN 1
      ELSE IF r1 = 0 /\ r2 = 0 THEN 0
      ELSE IF r1 = 0 THEN -1
      ELSE IF r2 = 0 THEN 1
      ELSE 0 - CmpPos(b, r1, d, r2)

(* floor(log10(n/d)) for n, d > 0 *)
RECURSIVE MagUp(_, _, _)
MagUp(n, d, k) ==
  IF k >= 9 THEN 9
  ELSE IF CmpPos(n, d, TenTo(k + 1), 1) < 0 THEN k
  ELSE MagUp(n, d, k + 1)

RECURSIVE MagDown(_, _, _)
MagDown(n, d, k) ==
  IF k > 9 THEN 0 - k
  ELSE IF CmpPos(n, d, 1, TenTo(k)) >= 0 THEN 0 - k
  ELSE MagDown(n, d, k + 1)

Mag(n, d) == IF n >= d THEN MagUp(n, d, 0) ELSE MagDown(n, d, 1)

(* Comparison of two finite numbers >= 0: by exponent and magnitude, and   *)
(* for equal magnitudes by the mantissas brought to one exponent.          *)
CmpAligned(x, y) ==
  IF x.e > y.e THEN CmpPos(x.n * TenTo(x.e - y.e), x.d, y.n, y.d)
  ELSE CmpPos(x.n, x.d, y.n * TenTo(y.e - x.e), y.d)

CmpMag(x, y, mx, my) ==
  IF mx < my THEN -1 ELSE IF mx > my THEN 1 ELSE CmpAligned(x, y)

CmpFinite(x, y) ==
  IF x.e = y.e THEN CmpPos(x.n, x.d, y.n, y.d)
  ELSE IF x.n = 0 THEN -1
  ELSE IF y.n = 0 THEN 1
  ELSE CmpMag(x, y, Mag(x.n, x.d) + x.e, Mag(y.n, y.d) + y.e)

(* Three-way comparison of two non-NaN numbers. *)
Cmp(x, y) ==
  IF x.d = 0 \/ y.d = 0
  THEN LET vx == IF x.d = 0 THEN 2 * x.n ELSE 0
           vy == IF y.d = 0 THEN 2 * y.n ELSE 0
       IN  Sign(vx - vy)
  ELSE IF Sign(x.n) # Sign(y.n) THEN Sign(Sign(x.n) - Sign(y.n))
  ELSE IF x.n >= 0 THEN CmpFinite(x, y)
  ELSE CmpFinite(Neg(y), Neg(x))

Lt(x, y) == ~IsNaN(x) /\ ~IsNaN(y) /\ Cmp(x, y) < 0

Le(x, y) == ~IsNaN(x) /\ ~IsNaN(y) /\ Cmp(x, y) <= 0

Gt(x, y) == Lt(y, x)

Ge(x, y) == Le(y, x)

Mul(x, y) ==
  IF IsNaN(x) \/ IsNaN(y) THEN NaN
  ELSE IF x.d = 0 \/ y.d = 0 THEN Rat(Sign(x.n) * Sign(y.n), 0)
  ELSE LET g1 == Gcd(Abs(x.n), y.d)
           g2 == Gcd(Abs(y.n), x.d)
       IN  Norm((x.n \div g1) * (y.n \div g2), (x.d \div g2) * (y.d \div g1), x.e + y.e)

Inv(x) ==
  IF IsNaN(x) THEN NaN
  ELSE IF x.d = 0 THEN Int2Rat(0)
  ELSE IF x.n = 0 THEN Infinity
  ELSE Norm(Sign(x.n) * x.d, Abs(x.n), 0 - x.e)

Div(x, y) ==
  IF IsNaN(x) \/ IsNaN(y) THEN NaN
  ELSE IF x.d = 0 /\ y.d = 0 THEN NaN
  ELSE IF x.n = 0 /\ y.n = 0 THEN NaN
  ELSE IF x.d = 0 THEN Rat(Sign(x.n) * (IF y.n < 0 THEN -1 ELSE 1), 0)
  ELSE Mul(x, Inv(y))

-----------------------------------------------------------------------------
(* Static tables: a subset of the shipped tables, shipped values; every    *)
(* shipped energy entry is present.                                        *)

units ==
  << [id |-> "mW",  dimension |-> "power",    toBase |-> Rat(1, 1000)],
     [id |-> "W",   dimension |-> "power",    toBase |-> Int2Rat(1)],
     [id |-> "kW",  dimension |-> "power",    toBase |-> Int2Rat(1000)],
     [id |-> "GW",  dimension |-> "power",    toBase |-> Int2Rat(1000000000)],
     [id |-> "Wh",  dimension |-> "energy",   toBase |-> Int2Rat(1)],
     [id |-> "kWh", dimension |-> "energy",   toBase |-> Int2Rat(1000)],
     [id |-> "m",   dimension |-> "distance", toBase |-> Int2Rat(1)],
     [id |-> "km",  dimension |-> "distance", toBase |-> Int2Rat(1000)],
     [id |-> "USD", dimension |-> "currency", toBase |-> Int2Rat(1)] >>

quantities ==
  << [id |-> "led-bulb",          value |-> Int2Rat(10),       unitId |-> "W"],
     [id |-> "incandescent-bulb", value |-> Int2Rat(60),       unitId |-> "W"],
     [id |-> "us-household",      value |-> Rat(12, 10),       unitId |-> "kW"],
     [id |-> "school",            value |-> Int2Rat(100),      unitId |-> "kW"],
     [id |-> "nuclear-reactor",   value |-> Int2Rat(1),        unitId |-> "GW"],
     [id |-> "aaa-battery",       value |-> Rat(18, 10),       unitId |-> "Wh"],
     [id |-> "aa-battery",        value |-> Rat(39, 10),       unitId |-> "Wh"],
     [id |-> "phone-battery",     value |-> Int2Rat(15),       unitId |-> "Wh"],
     [id |-> "laptop-battery",    value |-> Int2Rat(60),       unitId |-> "Wh"],
     [id |-> "tesla-battery",     value |-> Int2Rat(60),       unitId |-> "kWh"],
     [id |-> "powerwall",         value |-> Rat(135, 10),      unitId |-> "kWh"],
     [id |-> "charge-phone",      value |-> Int2Rat(15),       unitId |-> "Wh"],
     [id |-> "load-laundry",      value |-> Rat(5, 10),        unitId |-> "kWh"],
     [id |-> "kiln-firing",       value |-> Int2Rat(80),       unitId |-> "kWh"],
     [id |-> "household-daily",   value |-> Int2Rat(29),       unitId |-> "kWh"],
     [id |-> "smelt-aluminum-kg", value |-> Int2Rat(15),       unitId |-> "kWh"],
     [id |-> "city-block",        value |-> Int2Rat(100),      unitId |-> "m"],
     [id |-> "marathon",          value |-> Rat(42195, 1000),  unitId |-> "km"],
     [id |-> "cross-country-us",  value |-> Int2Rat(4500),     unitId |-> "km"] >>

conversionRules ==
  << [id |-> "power-energy-duration", name |-> "Running time",
      fromDimension |-> "power", toDimension |-> "energy",
      factor |-> Int2Rat(1), bidirectional |-> TRUE, durationBased |-> TRUE],
     [id |-> "energy-to-distance-tesla", name |-> "Tesla Model 3 driving",
      fromDimension |-> "energy", toDimension |-> "distance",
      factor |-> Rat(1000, 150), bidirectional |-> TRUE, durationBased |-> FALSE],
     [id |-> "energy-to-money-electricity", name |-> "US electricity cost",
      fromDimension |-> "energy", toDimension |-> "money",
      factor |-> Rat(16, 100000), bidirectional |-> TRUE, durationBased |-> FALSE] >>

Range(s) == {s[i] : i \in DOMAIN s}

UnitIds == {u.id : u \in Range(units)}

EntryIds == {e.id : e \in Range(quantities)}

RuleIds == {r.id : r \in Range(conversionRules)}

(* A thrown Error, as the value of a call. *)
Throw(msg) == [threw |-> TRUE, message |-> msg]

Threw(v) == v \in [threw : {TRUE}, message : Seq(STRING)]

(* A returned value, as the value of a call. *)
Returned(v) == [threw |-> FALSE, value |-> v]

HasUnit(id) == \E i \in DOMAIN units : units[i].id = id

(* units.find(u => u.id === id): the first unit with that id *)
FindUnit(id) ==
  units[CHOOSE i \in DOMAIN units :
          units[i].id = id /\ \A j \in 1..(i - 1) : units[j].id # id]

getUnit(id) ==
  IF HasUnit(id) THEN FindUnit(id) ELSE Throw(<<"Unknown unit: ", id>>)

getDimension(entry) ==
  IF HasUnit(entry.unitId) THEN FindUnit(entry.unitId).dimension ELSE "unknown"

toBaseValue(entry) ==
  IF HasUnit(entry.unitId) THEN Mul(entry.value, FindUnit(entry.unitId).toBase)
  ELSE Throw(<<"Unknown unit ", entry.unitId>>)

-----------------------------------------------------------------------------
(* Candidate discovery *)

Filter(s, Test(_)) == SelectSeq(s, Test)

FlatMap(s, F(_)) ==
  LET RECURSIVE From(_)
      From(i) == IF i > Len(s) THEN <<>> ELSE F(s[i]) \o From(i + 1)
  IN  From(1)

HasOverride(map, key) == key \in DOMAIN map

EntriesOf(dimension, rawBase, steps, outBase) ==
  LET One(entry) ==
        IF getDimension(entry) = dimension /\ ~Le(toBaseValue(entry), Int2Rat(0))
        THEN << [entry |-> entry,
                 rawCount |-> Div(rawBase, toBaseValue(entry)),
                 steps |-> steps,
                 outputBaseValue |-> outBase] >>
        ELSE <<>>
  IN  FlatMap(quantities, One)

(* Variant: the reverse direction divides by the rule's static factor and  *)
(* leaves the override aside.                                             *)
findCandidates_StaticReverse(inputBaseValue, inputDimension, overrides) ==
  LET direct == EntriesOf(inputDimension, inputBaseValue, <<>>, inputBaseValue)
      Hop(rule) ==
        LET factor == IF HasOverride(overrides, rule.id) THEN overrides[rule.id]
                      ELSE rule.factor
        IN  IF rule.fromDimension = inputDimension
            THEN EntriesOf(rule.toDimension, Mul(inputBaseValue, factor),
                           << [rule |-> rule,
                               intermediateValue |-> Mul(inputBaseValue, factor),
                               reverse |-> FALSE, factor |-> factor] >>,
                           Mul(inputBaseValue, factor))
            ELSE IF rule.bidirectional /\ rule.toDimension = inputDimension
            THEN EntriesOf(rule.fromDimension, Div(inputBaseValue, rule.factor),
                           << [rule |-> rule,
                               intermediateValue |-> Div(inputBaseValue, rule.factor),
                               reverse |-> TRUE, factor |-> rule.factor] >>,
                           Div(inputBaseValue, rule.factor))
            ELSE <<>>
  IN  direct \o FlatMap(conversionRules, Hop)

(* Variant: the reverse direction multiplies by the factor as the forward  *)
(* direction does.                                                        *)
findCandidates_ReverseMultiplies(inputBaseValue, inputDimension, overrides) ==
  LET direct == EntriesOf(inputDimension, inputBaseValue, <<>>, inputBaseValue)
      Hop(rule) ==
        LET factor == IF HasOverride(overrides, rule.id) THEN overrides[rule.id]
                      ELSE rule.factor
            convertedValue == Mul(inputBaseValue, factor)
        IN  IF rule.fromDimension = inputDimension
            THEN EntriesOf(rule.toDimension, convertedValue,
                           << [rule |-> rule, intermediateValue |-> convertedValue,
                               reverse |-> FALSE, factor |-> factor] >>, convertedValue)
            ELSE IF rule.bidirectional /\ rule.toDimension = inputDimension
            THEN EntriesOf(rule.fromDimension, convertedValue,
                           << [rule |-> rule, intermediateValue |-> convertedValue,
                               reverse |-> TRUE, factor |-> factor] >>, convertedValue)
            ELSE <<>>
  IN  direct \o FlatMap(conversionRules, Hop)

(* Variant of findCandidates whose reverse hop divides the factor by the input. *)
findCandidates_ReverseSwapped(inputBaseValue, inputDimension, overrides) ==
  LET direct == EntriesOf(inputDimension, inputBaseValue, <<>>, inputBaseValue)
      Hop(rule) ==
        LET factor == IF HasOverride(overrides, rule.id) THEN overrides[rule.id]
                      ELSE rule.factor
        IN  IF rule.fromDimension = inputDimension
            THEN LET convertedValue == Mul(inputBaseValue, factor)
                     step == [rule |-> rule, intermediateValue |-> convertedValue,
                              reverse |-> FALSE, factor |-> factor]
                 IN  EntriesOf(rule.toDimension, convertedValue, <<step>>, convertedValue)
            ELSE IF rule.bidirectional /\ rule.toDimension = inputDimension
            THEN LET convertedValue == Div(factor, inputBaseValue)
                     step == [rule |-> rule, intermediateValue |-> convertedValue,
                              reverse |-> TRUE, factor |-> factor]
                 IN  EntriesOf(rule.fromDimension, convertedValue, <<step>>, convertedValue)
            ELSE <<>>
  IN  direct \o FlatMap(conversionRules, Hop)

findCandidates(inputBaseValue, inputDimension, overrides) ==
  LET direct == EntriesOf(inputDimension, inputBaseValue, <<>>, inputBaseValue)
      Hop(rule) ==
        LET factor == IF HasOverride(overrides, rule.id) THEN overrides[rule.id]
                      ELSE rule.factor
        IN  IF rule.fromDimension = inputDimension
            THEN LET convertedValue == Mul(inputBaseValue, factor)
                     step == [rule |-> rule, intermediateValue |-> convertedValue,
                              reverse |-> FALSE, factor |-> factor]
                 IN  EntriesOf(rule.toDimension, convertedValue, <<step>>, convertedValue)
            ELSE IF rule.bidirectional /\ rule.toDimension = inputDimension
            THEN LET convertedValue == Div(inputBaseValue, factor)
                     step == [rule |-> rule, intermediateValue |-> convertedValue,
                              reverse |-> TRUE, factor |-> factor]
                 IN  EntriesOf(rule.fromDimension, convertedValue, <<step>>, convertedValue)
            ELSE <<>>
  IN  direct \o FlatMap(conversionRules, Hop)

-----------------------------------------------------------------------------
(* Selection and scoring *)

Null == [null |-> TRUE]

IsNull(v) == v = Null

(* pickBestUnder's two loops: the first candidate, among those accepted,   *)
(* whose rawCount is strictly below every earlier accepted one (and below  *)
(* the initial bestCount = Infinity).                                      *)
FirstSmallest(cands, Accept(_)) ==
  LET RECURSIVE Loop(_, _, _)
      Loop(i, best, bestCount) ==
        IF i > Len(cands) THEN best
        ELSE IF Accept(cands[i]) /\ Lt(cands[i].rawCount, bestCount)
             THEN Loop(i + 1, cands[i], cands[i].rawCount)
             ELSE Loop(i + 1, best, bestCount)
  IN  Loop(1, Null, Infinity)

(* Variant: the first fitting candidate is kept, counts are not compared. *)
pickBestUnder_FirstFitting(cands) ==
  LET Fits(c) == Ge(c.rawCount, Int2Rat(1))
      Positive(c) == Gt(c.rawCount, Int2Rat(0))
      fitting == SelectSeq(cands, Fits)
  IN  IF Len(fitting) = 0
      THEN FirstSmallest(cands, Positive)
      ELSE fitting[1]

(* Variant: when nothing fits, the candidate closest to 1 from below. *)
pickBestUnder_ClosestBelow(cands) ==
  LET Fits(c) == Ge(c.rawCount, Int2Rat(1))
      Positive(c) == Gt(c.rawCount, Int2Rat(0))
      Every(c) == TRUE
      fitting == SelectSeq(cands, Fits)
      Largest(c) == \A i \in DOMAIN cands : Le(cands[i].rawCount, c.rawCount)
  IN  IF Len(fitting) = 0
      THEN (IF SelectSeq(cands, Positive) = <<>> THEN Null
            ELSE SelectSeq(cands, Largest)[1])
      ELSE FirstSmallest(fitting, Every)

pickBestUnder(cands) ==
  LET Fits(c) == Ge(c.rawCount, Int2Rat(1))
      Positive(c) == Gt(c.rawCount, Int2Rat(0))
      Every(c) == TRUE
      fitting == SelectSeq(cands, Fits)
  IN  IF Len(fitting) = 0
      THEN FirstSmallest(cands, Positive)
      ELSE FirstSmallest(fitting, Every)

computeDurationHours(inputBaseValue, inputDimension, entryBaseValue) ==
  IF inputDimension = "energy"
  THEN Div(inputBaseValue, entryBaseValue)
  ELSE Div(entryBaseValue, inputBaseValue)

OneMinute == Rat(1, 60)

HundredYears == Int2Rat(876600)

(* A score  base - slope * |log10(logArg)| - penalty  is kept symbolically, *)
(* with slope2 = 2 * slope; -Infinity and NaN are separate kinds.  Two     *)
(* scores of the same base and slope are compared exactly (see ScoreGt).   *)
NegInfScore == [kind |-> "neginf"]

NaNScore == [kind |-> "nan"]

(* Variant: the ideal duration is 1 hour instead of 10. *)
scoreDuration_IdealOneHour(hours) ==
  IF Le(hours, Int2Rat(0)) THEN NegInfScore
  ELSE IF IsNaN(hours) THEN NaNScore
  ELSE IF ~IsFinite(hours) THEN NegInfScore
  ELSE [kind |-> "num", logArg |-> hours, slope2 |-> 3,
        penalty |-> (IF Lt(hours, OneMinute) THEN 5 ELSE 0)
                    + (IF Gt(hours, HundredYears) THEN 5 ELSE 0)]

(* Variant: no penalty out of the bounds. *)
scoreDuration_NoPenalty(hours) ==
  IF Le(hours, Int2Rat(0)) THEN NegInfScore
  ELSE IF IsNaN(hours) THEN NaNScore
  ELSE IF ~IsFinite(hours) THEN NegInfScore
  ELSE [kind |-> "num", logArg |-> Div(hours, Int2Rat(10)), slope2 |-> 3, penalty |-> 0]

(* 5 - |log10(hours) - 1| * 1.5, minus 5 below a minute, minus 5 above a   *)
(* hundred years; log10(hours) - 1 = log10(hours / 10).                    *)
scoreDuration(hours) ==
  IF Le(hours, Int2Rat(0)) THEN NegInfScore
  ELSE IF IsNaN(hours) THEN NaNScore
  ELSE IF ~IsFinite(hours) THEN NegInfScore
  ELSE [kind |-> "num", logArg |-> Div(hours, Int2Rat(10)), slope2 |-> 3,
        penalty |-> (IF Lt(hours, OneMinute) THEN 5 ELSE 0)
                    + (IF Gt(hours, HundredYears) THEN 5 ELSE 0)]

(* 10^|log10 x| for a positive finite x: x or 1/x, whichever is >= 1 *)
LogMagnitude(x) == IF Ge(x, Int2Rat(1)) THEN x ELSE Inv(x)

(* 10^(k/3): exact for k a multiple of 3, else to eight significant        *)
(* digits (the value is irrational, so no rational equals it).             *)
TenToThirds(k) ==
  CASE k = 2 -> Rat(46415888, 10000000)
    [] k = 3 -> Int2Rat(10)
    [] k = 5 -> Rat(46415888, 1000000)
    [] k = 8 -> Rat(46415888, 100000)
    [] k = 10 -> Rat(215443469, 100000)
    [] k = 20 -> Rat(46415888, 10)

(* a > b on two scores of the same base and slope, as JavaScript compares  *)
(* the two numbers: slope * La + pa < slope * Lb + pb, that is             *)
(* Mb / Ma > 10^((pa - pb) / slope) for the magnitudes M = 10^L.           *)
ScoreGt(a, b) ==
  IF a.kind = "nan" \/ b.kind = "nan" THEN FALSE
  ELSE IF a.kind = "neginf" THEN FALSE
  ELSE IF b.kind = "neginf" THEN TRUE
  ELSE LET ma == LogMagnitude(a.logArg)
           mb == LogMagnitude(b.logArg)
       IN  IF a.penalty = b.penalty THEN Lt(ma, mb)
           ELSE IF a.penalty > b.penalty
           THEN Gt(Div(mb, ma), TenToThirds((6 * (a.penalty - b.penalty)) \div a.slope2))
           ELSE Lt(Div(ma, mb), TenToThirds((6 * (b.penalty - a.penalty)) \div a.slope2))

MIN_COUNT_THRESHOLD == Rat(1, 10)

getDimensionLabel(dim) ==
  CASE dim = "power" -> "Power"
    [] dim = "energy" -> "Energy"
    [] dim = "distance" -> "Distance"
    [] dim = "mass" -> "Mass"
    [] dim = "money" -> "Money"
    [] dim = "time" -> "Time"
    [] dim = "temperature" -> "Temperature"
    [] dim = "compute" -> "Compute"
    [] OTHER -> dim

ConvIdOf(c) == IF Len(c.steps) = 0 THEN "direct" ELSE c.steps[1].rule.id

(* The keys of the groups Map, in insertion order. *)
GroupKeys(cands) ==
  LET RECURSIVE Loop(_, _)
      Loop(i, keys) ==
        IF i > Len(cands) THEN keys
        ELSE IF \E k \in DOMAIN keys : keys[k] = ConvIdOf(cands[i])
             THEN Loop(i + 1, keys)
             ELSE Loop(i + 1, Append(keys, ConvIdOf(cands[i])))
  IN  Loop(1, <<>>)

(* sortedKeys: 'direct' first, the other keys in their insertion order *)
SortedKeys(keys) ==
  LET IsDirect(k) == k = "direct"
      NotDirect(k) == k # "direct"
  IN  SelectSeq(keys, IsDirect) \o SelectSeq(keys, NotDirect)

GroupOf(cands, inputDimension, convId) ==
  LET InGroup(c) == ConvIdOf(c) = convId
      members == SelectSeq(cands, InGroup)
      first == members[1]
  IN  [name |-> IF Len(first.steps) = 0 THEN getDimensionLabel(inputDimension)
                ELSE first.steps[1].rule.name,
       dimension |-> getDimension(first.entry),
       steps |-> first.steps,
       candidates |-> members]

(* Stable sort by descending base value of the entry (insertion sort). *)
(* Variant of SortByBaseDesc that orders by ascending base value. *)
SortByBaseDesc_Ascending(alts) ==
  LET RECURSIVE Insert(_, _)
      Insert(sorted, a) ==
        IF sorted = <<>> THEN <<a>>
        ELSE IF Lt(toBaseValue(a.entry), toBaseValue(Head(sorted).entry))
             THEN <<a>> \o sorted
             ELSE <<Head(sorted)>> \o Insert(Tail(sorted), a)
      RECURSIVE Loop(_, _)
      Loop(i, sorted) ==
        IF i > Len(alts) THEN sorted ELSE Loop(i + 1, Insert(sorted, alts[i]))
  IN  Loop(1, <<>>)

SortByBaseDesc(alts) ==
  LET RECURSIVE Insert(_, _)
      Insert(sorted, a) ==
        IF sorted = <<>> THEN <<a>>
        ELSE IF Gt(toBaseValue(a.entry), toBaseValue(Head(sorted).entry))
             THEN <<a>> \o sorted
             ELSE <<Head(sorted)>> \o Insert(Tail(sorted), a)
      RECURSIVE Loop(_, _)
      Loop(i, sorted) ==
        IF i > Len(alts) THEN sorted ELSE Loop(i + 1, Insert(sorted, alts[i]))
  IN  Loop(1, <<>>)

(* candidates.find(c => c.entry.id === id) || null *)
FindEntry(cands, id) ==
  IF \E i \in DOMAIN cands : cands[i].entry.id = id
  THEN cands[CHOOSE i \in DOMAIN cands :
               cands[i].entry.id = id /\ \A j \in 1..(i - 1) : cands[j].entry.id # id]
  ELSE Null

(* Variant of BestByDuration that keeps the first candidate of the group. *)
BestByDuration_KeepsFirst(cands, inputBaseValue, inputDimension) ==
  LET RECURSIVE Loop(_, _, _)
      Loop(i, chosen, bestScore) ==
        IF i > Len(cands) THEN chosen
        ELSE LET duration == computeDurationHours(inputBaseValue, inputDimension,
                                                  toBaseValue(cands[i].entry))
                 score == scoreDuration(duration)
             IN  IF chosen = Null /\ ScoreGt(score, bestScore)
                 THEN Loop(i + 1, cands[i], score)
                 ELSE Loop(i + 1, chosen, bestScore)
  IN  Loop(1, Null, NegInfScore)

(* The loop over the group that keeps the candidate of highest score. *)
BestByDuration(cands, inputBaseValue, inputDimension) ==
  LET RECURSIVE Loop(_, _, _)
      Loop(i, chosen, bestScore) ==
        IF i > Len(cands) THEN chosen
        ELSE LET duration == computeDurationHours(inputBaseValue, inputDimension,
                                                  toBaseValue(cands[i].entry))
                 score == scoreDuration(duration)
             IN  IF ScoreGt(score, bestScore)
                 THEN Loop(i + 1, cands[i], score)
                 ELSE Loop(i + 1, chosen, bestScore)
  IN  Loop(1, Null, NegInfScore)

PassesThreshold(c) == Ge(c.rawCount, MIN_COUNT_THRESHOLD)

(* Variant: the overriding entry is looked up after the threshold filter. *)
ChooseCandidate_OverrideAfterFilter(group, isDurationBased, inputBaseValue, inputDimension, convId, eOverrides) ==
  LET filtered == SelectSeq(group.candidates, PassesThreshold)
      overridden == IF HasOverride(eOverrides, convId)
                    THEN FindEntry(filtered, eOverrides[convId])
                    ELSE Null
  IN  IF ~IsNull(overridden) THEN overridden
      ELSE IF isDurationBased
      THEN BestByDuration(group.candidates, inputBaseValue, inputDimension)
      ELSE IF Len(filtered) = 0 THEN Null ELSE pickBestUnder(filtered)

ChooseCandidate(group, isDurationBased, inputBaseValue, inputDimension, convId, eOverrides) ==
  LET overridden == IF HasOverride(eOverrides, convId)
                    THEN FindEntry(group.candidates, eOverrides[convId])
                    ELSE Null
  IN  IF ~IsNull(overridden) THEN overridden
      ELSE IF isDurationBased
      THEN BestByDuration(group.candidates, inputBaseValue, inputDimension)
      ELSE LET filtered == SelectSeq(group.candidates, PassesThreshold)
           IN  IF Len(filtered) = 0 THEN Null ELSE pickBestUnder(filtered)

DurationAlternatives(group, inputBaseValue, inputDimension) ==
  LET Alt(c) == << [entry |-> c.entry, count |-> c.rawCount,
                    durationHours |-> computeDurationHours(inputBaseValue, inputDimension,
                                                           toBaseValue(c.entry))] >>
      InBounds(a) == Ge(a.durationHours, OneMinute) /\ Le(a.durationHours, HundredYears)
  IN  SortByBaseDesc(SelectSeq(FlatMap(group.candidates, Alt), InBounds))

CountAlternatives(group) ==
  LET Alt(c) == << [entry |-> c.entry, count |-> c.rawCount] >>
  IN  SortByBaseDesc(FlatMap(SelectSeq(group.candidates, PassesThreshold), Alt))

(* group.candidates[0]?.steps[0]?.rule.durationBased === true *)
IsDurationBased(group) ==
  /\ Len(group.candidates[1].steps) > 0
  /\ group.candidates[1].steps[1].rule.durationBased = TRUE

(* The sentence pushed for a duration-based path. *)
DurationSentence(group, chosen, convId, inputBaseValue, inputDimension) ==
  [conversionId |-> convId,
   conversionName |-> group.name,
   outputDimension |-> group.dimension,
   outputEntry |-> chosen.entry,
   count |-> chosen.rawCount,
   outputUnit |-> getUnit(chosen.entry.unitId),
   steps |-> chosen.steps,
   alternatives |-> DurationAlternatives(group, inputBaseValue, inputDimension),
   outputBaseValue |-> chosen.outputBaseValue,
   durationHours |-> computeDurationHours(inputBaseValue, inputDimension,
                                          toBaseValue(chosen.entry))]

(* The sentence pushed for a count-based path. *)
CountSentence(group, chosen, convId) ==
  [conversionId |-> convId,
   conversionName |-> group.name,
   outputDimension |-> group.dimension,
   outputEntry |-> chosen.entry,
   count |-> chosen.rawCount,
   outputUnit |-> getUnit(chosen.entry.unitId),
   steps |-> chosen.steps,
   alternatives |-> CountAlternatives(group),
   outputBaseValue |-> chosen.outputBaseValue]

(* The end of the loop body: no sentence when nothing is chosen. *)
SentenceOfChosen(group, chosen, convId, inputBaseValue, inputDimension) ==
  IF IsNull(chosen) THEN <<>>
  ELSE IF IsDurationBased(group)
  THEN << DurationSentence(group, chosen, convId, inputBaseValue, inputDimension) >>
  ELSE << CountSentence(group, chosen, convId) >>

(* The loop body for one group. *)
SentenceOfGroup(group, inputBaseValue, inputDimension, convId, eOverrides) ==
  SentenceOfChosen(group,
                   ChooseCandidate(group, IsDurationBased(group), inputBaseValue,
                                   inputDimension, convId, eOverrides),
                   convId, inputBaseValue, inputDimension)

SentenceFor(cands, inputBaseValue, inputDimension, convId, eOverrides) ==
  SentenceOfGroup(GroupOf(cands, inputDimension, convId), inputBaseValue, inputDimension,
                  convId, eOverrides)

(* The grouping and the loop over the sorted keys. *)
SentencesFrom(candidates, inputBaseValue, inputDimension, eOverrides) ==
  LET Sentence(convId) ==
        SentenceFor(candidates, inputBaseValue, inputDimension, convId, eOverrides)
  IN  FlatMap(SortedKeys(GroupKeys(candidates)), Sentence)

(* Variant: only strictly negative base values give the empty result. *)
buildAllConversions_ZeroAccepted(number, unitId, fOverrides, eOverrides) ==
  LET inputUnit == getUnit(unitId)
      inputBaseValue == Mul(number, inputUnit.toBase)
  IN  IF Threw(inputUnit) THEN inputUnit
      ELSE IF Lt(inputBaseValue, Int2Rat(0)) THEN Returned(<<>>)
      ELSE Returned(SentencesFrom(
                      findCandidates(inputBaseValue, inputUnit.dimension, fOverrides),
                      inputBaseValue, inputUnit.dimension, eOverrides))

(* Variant: the input number is tested before the unit is looked up. *)
buildAllConversions_CheckBeforeLookup(number, unitId, fOverrides, eOverrides) ==
  LET inputUnit == getUnit(unitId)
      inputBaseValue == Mul(number, inputUnit.toBase)
  IN  IF Le(number, Int2Rat(0)) THEN Returned(<<>>)
      ELSE IF Threw(inputUnit) THEN inputUnit
      ELSE Returned(SentencesFrom(
                      findCandidates(inputBaseValue, inputUnit.dimension, fOverrides),
                      inputBaseValue, inputUnit.dimension, eOverrides))

buildAllConversions(number, unitId, fOverrides, eOverrides) ==
  LET inputUnit == getUnit(unitId)
      inputBaseValue == Mul(number, inputUnit.toBase)
  IN  IF Threw(inputUnit) THEN inputUnit
      ELSE IF Le(inputBaseValue, Int2Rat(0)) THEN Returned(<<>>)
      ELSE Returned(SentencesFrom(
                      findCandidates(inputBaseValue, inputUnit.dimension, fOverrides),
                      inputBaseValue, inputUnit.dimension, eOverrides))

-----------------------------------------------------------------------------
(* The single-formula query and the reachable entries *)

(* Math.floor of a finite number *)
FloorOf(n, d) == Int2Rat(n \div d)

Floor(x) ==
  IF x.e >= 0 THEN FloorOf(x.n * TenTo(x.e), x.d)
  ELSE IF Ge(x, Int2Rat(0)) /\ Lt(x, Int2Rat(1)) THEN Int2Rat(0)
  ELSE IF Lt(x, Int2Rat(0)) /\ Ge(x, Int2Rat(-1)) THEN Int2Rat(-1)
  ELSE FloorOf(x.n, x.d * TenTo(0 - x.e))

(* Math.round: the nearest integer, halves towards +Infinity *)
RoundOf(n, d) == Int2Rat((n \div d) + (IF (n % d) >= d - (n % d) THEN 1 ELSE 0))

Round(x) ==
  IF ~IsFinite(x) THEN x
  ELSE IF x.d = 1 /\ x.e >= 0 THEN x
  ELSE IF x.e >= 0 THEN RoundOf(x.n * TenTo(x.e), x.d)
  ELSE IF Lt(x, Rat(1, 2)) /\ Ge(x, Rat(-1, 2)) THEN Int2Rat(0)
  ELSE RoundOf(x.n, x.d * TenTo(0 - x.e))

Ceil(x) == IF IsFinite(x) THEN Neg(Floor(Neg(x))) ELSE x

(* Math.pow(10, Math.max(0, k)) *)
PowerOfTen(k) == [n |-> 1, d |-> 1, e |-> IF k <= 0 THEN 0 ELSE k]

(* Math.floor(Math.log10(x)) for a finite x >= 1 *)
FloorLog10(x) ==
  LET RECURSIVE Up(_)
      Up(k) == IF Lt(x, PowerOfTen(k + 1)) THEN k ELSE Up(k + 1)
  IN  Up(0)

MaxR(x, y) == IF Gt(y, x) THEN y ELSE x

(* The bump of the scale when the rounded count still exceeds 1000. *)
AdjustedScale(rawCount, adjustedScale) ==
  [emojiCount |-> Round(Div(rawCount, adjustedScale)), scale |-> adjustedScale]

ScaledCount(rawCount, scale, emojiCount) ==
  IF Gt(emojiCount, Int2Rat(1000))
  THEN AdjustedScale(rawCount, Mul(scale, Ceil(Div(emojiCount, Int2Rat(1000)))))
  ELSE [emojiCount |-> emojiCount, scale |-> scale]

(* scale = 10^max(0, power) and the count rounded at that scale *)
ScaleOfPower(rawCount, scale) == ScaledCount(rawCount, scale, Round(Div(rawCount, scale)))

(* Variant of chooseEmojiScale whose power of ten is one lower, so that    *)
(* the rounded count reaches the thousands and the scale is bumped.        *)
chooseEmojiScale_PowerOneLower(rawCount) ==
  IF Le(rawCount, Int2Rat(0)) THEN [emojiCount |-> Int2Rat(0), scale |-> Int2Rat(1)]
  ELSE IF Le(rawCount, Int2Rat(1000))
  THEN [emojiCount |-> MaxR(Int2Rat(1), Round(rawCount)), scale |-> Int2Rat(1)]
  ELSE IF IsNaN(rawCount) THEN [emojiCount |-> NaN, scale |-> NaN]
  ELSE IF ~IsFinite(rawCount) THEN [emojiCount |-> NaN, scale |-> Infinity]
  ELSE ScaleOfPower(rawCount, PowerOfTen(FloorLog10(rawCount) - 3))

chooseEmojiScale(rawCount) ==
  IF Le(rawCount, Int2Rat(0)) THEN [emojiCount |-> Int2Rat(0), scale |-> Int2Rat(1)]
  ELSE IF Le(rawCount, Int2Rat(1000))
  THEN [emojiCount |-> MaxR(Int2Rat(1), Round(rawCount)), scale |-> Int2Rat(1)]
  ELSE IF IsNaN(rawCount) THEN [emojiCount |-> NaN, scale |-> NaN]
  ELSE IF ~IsFinite(rawCount) THEN [emojiCount |-> NaN, scale |-> Infinity]
  ELSE ScaleOfPower(rawCount, PowerOfTen(FloorLog10(rawCount) - 2))

(* 10 - |log10(emojiCount) - log10(200)| * 3, minus 5 under 5 emojis,      *)
(* minus 3 under a count of 1.                                             *)
ScoreOfEmojiCount(rawCount, emojiCount) ==
  IF Le(rawCount, Int2Rat(0)) THEN NegInfScore
  ELSE IF Lt(emojiCount, Int2Rat(1)) THEN NegInfScore
  ELSE IF IsNaN(emojiCount) THEN NaNScore
  ELSE [kind |-> "num", logArg |-> Div(emojiCount, Int2Rat(200)), slope2 |-> 6,
        penalty |-> (IF Lt(emojiCount, Int2Rat(5)) THEN 5 ELSE 0)
                    + (IF Lt(rawCount, Int2Rat(1)) THEN 3 ELSE 0)]

scoreCandidate(rawCount) ==
  ScoreOfEmojiCount(rawCount, chooseEmojiScale(rawCount).emojiCount)

(* units.filter(u => u.dimension === dimension).sort((a, b) => a.toBase - b.toBase) *)
UnitsByToBase(dimension) ==
  LET OfDimension(u) == u.dimension = dimension
      RECURSIVE Insert(_, _)
      Insert(sorted, u) ==
        IF sorted = <<>> THEN <<u>>
        ELSE IF Lt(u.toBase, Head(sorted).toBase) THEN <<u>> \o sorted
        ELSE <<Head(sorted)>> \o Insert(Tail(sorted), u)
      RECURSIVE Loop(_, _)
      Loop(todo, sorted) ==
        IF todo = <<>> THEN sorted ELSE Loop(Tail(todo), Insert(sorted, Head(todo)))
  IN  Loop(SelectSeq(units, OfDimension), <<>>)

(* The loop of chooseBestUnit: the last unit whose display value is >= 1,  *)
(* the smallest unit when there is none.                                   *)
LargestUnitUnder(dimUnits, baseValue) ==
  LET RECURSIVE Loop(_, _)
      Loop(i, best) ==
        IF i > Len(dimUnits) THEN best
        ELSE IF Ge(Div(baseValue, dimUnits[i].toBase), Int2Rat(1))
             THEN Loop(i + 1, dimUnits[i])
             ELSE Loop(i + 1, best)
  IN  Loop(1, dimUnits[1])

(* Variant of chooseBestUnit that keeps the first unit whose display value *)
(* is >= 1.                                                                *)
chooseBestUnit_FirstUnitUnder(baseValue, dimension) ==
  LET dimUnits == UnitsByToBase(dimension)
      RECURSIVE Loop(_)
      Loop(i) ==
        IF i > Len(dimUnits) THEN dimUnits[1]
        ELSE IF Ge(Div(baseValue, dimUnits[i].toBase), Int2Rat(1)) THEN dimUnits[i]
        ELSE Loop(i + 1)
  IN  Loop(1)

chooseBestUnit(baseValue, dimension) ==
  LargestUnitUnder(UnitsByToBase(dimension), baseValue)

(* The scaled label: the value shown in the unit chosen for it. *)
ScaledLabel(scale, scaledBase, scaledUnit) ==
  [value |-> Div(scaledBase, scaledUnit.toBase), unit |-> scaledUnit.id, scale |-> scale]

LabelIn(entry, scale, unit) ==
  IF scale = Int2Rat(1)
  THEN [value |-> entry.value, unit |-> unit.id, scale |-> scale]
  ELSE ScaledLabel(scale, Mul(Mul(entry.value, scale), unit.toBase),
                   chooseBestUnit(Mul(Mul(entry.value, scale), unit.toBase),
                                  unit.dimension))

(* The label "1 <emoji> = <value> <symbol> (...)": the value shown, its    *)
(* unit and the scale, before number formatting.                           *)
formatEmojiLabel(entry, scale) == LabelIn(entry, scale, FindUnit(entry.unitId))

(* The auto-selection loop of buildFormula. *)
BestByScore(cands) ==
  LET RECURSIVE Loop(_, _, _)
      Loop(i, chosen, bestScore) ==
        IF i > Len(cands) THEN chosen
        ELSE IF cands[i].rawCount = Int2Rat(1) THEN Loop(i + 1, chosen, bestScore)
        ELSE IF ScoreGt(scoreCandidate(cands[i].rawCount), bestScore)
        THEN Loop(i + 1, cands[i], scoreCandidate(cands[i].rawCount))
        ELSE Loop(i + 1, chosen, bestScore)
  IN  Loop(1, Null, NegInfScore)

(* Variant: the target is taken only when no conversion is named. *)
TargetCandidate_OnlyWithoutConversion(cands, targetEntryId, targetConversionId) ==
  LET IsTarget(c) == c.entry.id = targetEntryId
      filtered == SelectSeq(cands, IsTarget)
  IN  IF targetEntryId = "" THEN Null
      ELSE IF targetConversionId # "" THEN Null
      ELSE IF filtered # <<>> THEN filtered[1]
      ELSE Null

(* An optional string argument is "" when absent (undefined and "" are     *)
(* both falsy).                                                            *)
TargetCandidate(cands, targetEntryId, targetConversionId) ==
  LET IsTarget(c) == c.entry.id = targetEntryId
      filtered == SelectSeq(cands, IsTarget)
      OnPath(c) == IF Len(c.steps) = 0 THEN targetConversionId = "direct"
                   ELSE c.steps[1].rule.id = targetConversionId
      onPath == SelectSeq(filtered, OnPath)
  IN  IF targetEntryId = "" THEN Null
      ELSE IF targetConversionId # "" /\ onPath # <<>> THEN onPath[1]
      ELSE IF filtered # <<>> THEN filtered[1]
      ELSE Null

(* The record returned for the chosen candidate. *)
FormulaOf(number, inputUnit, inputBaseValue, chosen, emoji) ==
  [inputBaseValue |-> inputBaseValue,
   inputUnit |-> inputUnit,
   inputNumber |-> number,
   steps |-> chosen.steps,
   outputEntry |-> chosen.entry,
   emojiCount |-> emoji.emojiCount,
   emojiScale |-> emoji.scale,
   emojiLabel |-> formatEmojiLabel(chosen.entry, emoji.scale),
   outputUnit |-> getUnit(chosen.entry.unitId)]

FormulaOfChosen(number, inputUnit, inputBaseValue, chosen) ==
  IF IsNull(chosen) THEN Returned(Null)
  ELSE Returned(FormulaOf(number, inputUnit, inputBaseValue, chosen,
                          chooseEmojiScale(chosen.rawCount)))

(* The target when one is given and found, else the best by score. *)
ChosenAmong(candidates, target) ==
  IF IsNull(target) THEN BestByScore(candidates) ELSE target

FormulaAmong(number, inputUnit, inputBaseValue, candidates, targetEntryId, targetConversionId) ==
  FormulaOfChosen(number, inputUnit, inputBaseValue,
                  ChosenAmong(candidates,
                              TargetCandidate(candidates, targetEntryId,
                                              targetConversionId)))

buildFormula(number, unitId, targetEntryId, targetConversionId, fOverrides) ==
  LET inputUnit == getUnit(unitId)
      inputBaseValue == Mul(number, inputUnit.toBase)
  IN  IF Threw(inputUnit) THEN inputUnit
      ELSE IF Le(inputBaseValue, Int2Rat(0)) THEN Returned(Null)
      ELSE FormulaAmong(number, inputUnit, inputBaseValue,
                        findCandidates(inputBaseValue, inputUnit.dimension, fOverrides),
                        targetEntryId, targetConversionId)

(* Variant of getReachableQuantities that follows the rules forwards only. *)
getReachableQuantities_ForwardOnly(unitId) ==
  LET inputUnit == getUnit(unitId)
      Direct(entry) ==
        IF getDimension(entry) = inputUnit.dimension
        THEN << [entry |-> entry, conversionId |-> "direct", conversionName |-> "Direct"] >>
        ELSE <<>>
      Via(rule) ==
        LET targetDimension ==
              IF rule.fromDimension = inputUnit.dimension THEN rule.toDimension
              ELSE ""
            Reached(entry) ==
              IF getDimension(entry) = targetDimension
              THEN << [entry |-> entry, conversionId |-> rule.id,
                       conversionName |-> rule.name] >>
              ELSE <<>>
        IN  IF targetDimension = "" THEN <<>> ELSE FlatMap(quantities, Reached)
  IN  IF Threw(inputUnit) THEN inputUnit
      ELSE Returned(FlatMap(quantities, Direct) \o FlatMap(conversionRules, Via))

getReachableQuantities(unitId) ==
  LET inputUnit == getUnit(unitId)
      Direct(entry) ==
        IF getDimension(entry) = inputUnit.dimension
        THEN << [entry |-> entry, conversionId |-> "direct", conversionName |-> "Direct"] >>
        ELSE <<>>
      Via(rule) ==
        LET targetDimension ==
              IF rule.fromDimension = inputUnit.dimension THEN rule.toDimension
              ELSE IF rule.bidirectional /\ rule.toDimension = inputUnit.dimension
              THEN rule.fromDimension
              ELSE ""
            Reached(entry) ==
              IF getDimension(entry) = targetDimension
              THEN << [entry |-> entry, conversionId |-> rule.id,
                       conversionName |-> rule.name] >>
              ELSE <<>>
        IN  IF targetDimension = "" THEN <<>> ELSE FlatMap(quantities, Reached)
  IN  IF Threw(inputUnit) THEN inputUnit
      ELSE Returned(FlatMap(quantities, Direct) \o FlatMap(conversionRules, Via))

-----------------------------------------------------------------------------
(* The calls made on the engine: a query is drawn, then one call is made   *)
(* with it and its outcome recorded.                                       *)

NoOverrides == [k \in {} |-> Null]

InputNumbers ==
  {NaN, Int2Rat(-1), Int2Rat(0), Int2Rat(1), Int2Rat(8), Int2Rat(250), Int2Rat(5000)}

UnknownUnitId == "furlong"

InputUnitIds == UnitIds \cup {UnknownUnitId}

FactorValues == {Rat(1, 2)}

MaxFactorOverrides == 1

MaxEntryOverrides == 1

ConversionIds == {"direct"} \cup RuleIds

OverrideEntryIds == {"school", "tesla-battery", "cross-country-us", "no-such-entry"}

PartialMaps(keys, values, max) ==
  UNION {[ks -> values] : ks \in {k \in SUBSET keys : Cardinality(k) <= max}}

FactorOverrideMaps == PartialMaps(RuleIds, FactorValues, MaxFactorOverrides)

(* The entry overrides a call is made with: on the paths that have entries *)
(* to choose from, naming an entry of the tables.                          *)
OverriddenPathIds == {"direct", "power-energy-duration", "energy-to-distance-tesla"}

OverridingEntryIds == {"school", "tesla-battery", "cross-country-us"}

EntryOverrideMaps == PartialMaps(OverriddenPathIds, OverridingEntryIds, MaxEntryOverrides)

NotCalled == [fn |-> "none"]

Init ==
  /\ inputNumber \in InputNumbers
  /\ inputUnitId \in InputUnitIds
  /\ factorOverrides \in FactorOverrideMaps
  /\ entryOverrides \in EntryOverrideMaps
  /\ called = NotCalled
  /\ result = Returned(Null)

CallBuildAllConversions ==
  /\ called = NotCalled
  /\ called' = [fn |-> "buildAllConversions"]
  /\ result' = buildAllConversions(inputNumber, inputUnitId, factorOverrides, entryOverrides)
  /\ UNCHANGED <<inputNumber, inputUnitId, factorOverrides, entryOverrides>>

(* buildFormula and getReachableQuantities take no entry overrides; *)
(* getReachableQuantities takes the unit only.                      *)
CallBuildFormula ==
  /\ called = NotCalled
  /\ entryOverrides = NoOverrides
  /\ \E targetEntryId \in OverrideEntryIds \cup {""},
        targetConversionId \in ConversionIds \cup {""} :
       /\ called' = [fn |-> "buildFormula", targetEntryId |-> targetEntryId,
                     targetConversionId |-> targetConversionId]
       /\ result' = buildFormula(inputNumber, inputUnitId, targetEntryId,
                                 targetConversionId, factorOverrides)
  /\ UNCHANGED <<inputNumber, inputUnitId, factorOverrides, entryOverrides>>

CallGetReachableQuantities ==
  /\ called = NotCalled
  /\ entryOverrides = NoOverrides
  /\ factorOverrides = NoOverrides
  /\ called' = [fn |-> "getReachableQuantities"]
  /\ result' = getReachableQuantities(inputUnitId)
  /\ UNCHANGED <<inputNumber, inputUnitId, factorOverrides, entryOverrides>>

(* findCandidates is called once the unit is found and the base value is   *)
(* not <= 0.                                                               *)
CallFindCandidates ==
  /\ called = NotCalled
  /\ entryOverrides = NoOverrides
  /\ HasUnit(inputUnitId)
  /\ ~Le(Mul(inputNumber, FindUnit(inputUnitId).toBase), Int2Rat(0))
  /\ called' = [fn |-> "findCandidates"]
  /\ result' = Returned(findCandidates(Mul(inputNumber, FindUnit(inputUnitId).toBase),
                                       FindUnit(inputUnitId).dimension, factorOverrides))
  /\ UNCHANGED <<inputNumber, inputUnitId, factorOverrides, entryOverrides>>

Next ==
  \/ CallBuildAllConversions
  \/ CallBuildFormula
  \/ CallGetReachableQuantities
  \/ CallFindCandidates

Spec == Init /\ [][Next]_vars

-----------------------------------------------------------------------------
(* The factor overrides held by useUrlState: read from the URL parameter f *)
(* at start-up, then changed by handleFactorChange.                        *)

Undefined == [undefined |-> TRUE]

(* parseFloat on the values the parameter is given here *)
parseFloat(val) ==
  CASE val = "0.5" -> Rat(1, 2)
    [] val = "8" -> Int2Rat(8)
    [] val = "0" -> Int2Rat(0)
    [] val = "-1" -> Int2Rat(-1)
    [] val = "Infinity" -> Infinity
    [] OTHER -> NaN

(* obj[key] = value on a copy of the object *)
WithKey(map, key, value) ==
  [k \in DOMAIN map \cup {key} |-> IF k = key THEN value ELSE map[k]]

(* delete obj[key] on a copy of the object *)
WithoutKey(map, key) == [k \in DOMAIN map \ {key} |-> map[k]]

(* The parameter is given as its pairs: encoded.split(',') with each pair  *)
(* split at ':' into key and val ("" for a missing part).                  *)
parseFactorOverrides(encoded) ==
  LET RECURSIVE Loop(_, _)
      Loop(i, parsed) ==
        IF i > Len(encoded) THEN parsed
        ELSE IF encoded[i].key # "" /\ encoded[i].val # ""
                /\ ~IsNaN(parseFloat(encoded[i].val))
        THEN Loop(i + 1, WithKey(parsed, encoded[i].key, parseFloat(encoded[i].val)))
        ELSE Loop(i + 1, parsed)
  IN  Loop(1, NoOverrides)

(* initial.factorOverrides ?? {} with readUrlState's f ? parse(f) : undefined *)
InitialFactorOverrides(f) == IF f = <<>> THEN NoOverrides ELSE parseFactorOverrides(f)

(* Variant: the new map holds the changed key only. *)
handleFactorChange_DropsOthers(prev, ruleId, newFactor) ==
  IF newFactor = Undefined THEN NoOverrides
  ELSE WithKey(NoOverrides, ruleId, newFactor)

(* The updater passed to setFactorOverrides. *)
handleFactorChange(prev, ruleId, newFactor) ==
  IF newFactor = Undefined THEN WithoutKey(prev, ruleId)
  ELSE WithKey(prev, ruleId, newFactor)

MaxPairs == 2

UrlKeys == {"", "energy-to-distance-tesla", "power-energy-duration"}

UrlVals == {"", "0.5", "0", "-1", "abc", "Infinity"}

EncodedParams ==
  UNION {[1..n -> [key : UrlKeys, val : UrlVals]] : n \in 0..MaxPairs}

FactorArgs ==
  {Rat(1, 2), Int2Rat(8), Int2Rat(0), Int2Rat(-1), NaN, Infinity, Undefined}

QueryUnitIds == {"kWh", "km"}

InitOverrides ==
  /\ inputNumber = Int2Rat(250)
  /\ inputUnitId \in QueryUnitIds
  /\ entryOverrides = NoOverrides
  /\ \E f \in EncodedParams :
       /\ called = [fn |-> "useUrlState", f |-> f]
       /\ factorOverrides = InitialFactorOverrides(f)
  /\ result = Returned(Null)

HandleFactorChange ==
  /\ \E ruleId \in RuleIds, newFactor \in FactorArgs :
       /\ called' = [fn |-> "handleFactorChange", ruleId |-> ruleId,
                     newFactor |-> newFactor]
       /\ factorOverrides' = handleFactorChange(factorOverrides, ruleId, newFactor)
  /\ result' = Returned(Null)
  /\ UNCHANGED <<inputNumber, inputUnitId, entryOverrides>>

(* The next query made with the overrides held. *)
QueryWithOverrides ==
  /\ called.fn # "findCandidates"
  /\ called' = [fn |-> "findCandidates"]
  /\ result' = Returned(findCandidates(Mul(inputNumber, FindUnit(inputUnitId).toBase),
                                       FindUnit(inputUnitId).dimension, factorOverrides))
  /\ UNCHANGED <<inputNumber, inputUnitId, factorOverrides, entryOverrides>>

NextOverrides ==
  \/ HandleFactorChange
  \/ QueryWithOverrides

SpecOverrides == InitOverrides /\ [][NextOverrides]_vars

-----------------------------------------------------------------------------
(* The wording of a duration.  formatDuration returns the text             *)
(* `${formatNumber(amount)} ${unit}`; the model keeps the amount handed to *)
(* formatNumber and the unit word.                                         *)

Worded(amount, unit) == [amount |-> amount, unit |-> unit]

(* Variant of formatDuration that switches to days from 24 hours on. *)
formatDuration_DaysFromOneDay(hours) ==
  IF Lt(hours, Rat(1, 60)) THEN Worded(Mul(hours, Int2Rat(3600)), "seconds")
  ELSE IF Lt(hours, Int2Rat(1)) THEN Worded(Mul(hours, Int2Rat(60)), "minutes")
  ELSE IF Lt(hours, Int2Rat(24)) THEN Worded(hours, "hours")
  ELSE IF Lt(hours, Int2Rat(720)) THEN Worded(Div(hours, Int2Rat(24)), "days")
  ELSE IF Lt(hours, Int2Rat(8766)) THEN Worded(Div(hours, Int2Rat(730)), "months")
  ELSE Worded(Div(hours, Int2Rat(8766)), "years")

(* Variant of formatDuration that counts a year from twelve months of 730  *)
(* hours on.                                                               *)
formatDuration_YearsFromTwelveMonths(hours) ==
  IF Lt(hours, Rat(1, 60)) THEN Worded(Mul(hours, Int2Rat(3600)), "seconds")
  ELSE IF Lt(hours, Int2Rat(1)) THEN Worded(Mul(hours, Int2Rat(60)), "minutes")
  ELSE IF Lt(hours, Int2Rat(48)) THEN Worded(hours, "hours")
  ELSE IF Lt(hours, Int2Rat(720)) THEN Worded(Div(hours, Int2Rat(24)), "days")
  ELSE IF Lt(hours, Int2Rat(8760)) THEN Worded(Div(hours, Int2Rat(730)), "months")
  ELSE Worded(Div(hours, Int2Rat(8766)), "years")

formatDuration(hours) ==
  IF Lt(hours, Rat(1, 60)) THEN Worded(Mul(hours, Int2Rat(3600)), "seconds")
  ELSE IF Lt(hours, Int2Rat(1)) THEN Worded(Mul(hours, Int2Rat(60)), "minutes")
  ELSE IF Lt(hours, Int2Rat(48)) THEN Worded(hours, "hours")
  ELSE IF Lt(hours, Int2Rat(720)) THEN Worded(Div(hours, Int2Rat(24)), "days")
  ELSE IF Lt(hours, Int2Rat(8766)) THEN Worded(Div(hours, Int2Rat(730)), "months")
  ELSE Worded(Div(hours, Int2Rat(8766)), "years")

(* The hour counts formatted: around every threshold, in whole hours, in   *)
(* sixtieths and in hundredths, and the three non-finite numbers.          *)
HourNumerators ==
  {-1, 0, 1, 59, 60, 61, 99, 100, 101, 47, 48, 49, 719, 720, 721, 729, 730, 2879, 2880, 2881,
   4799, 4800, 4801, 8765, 8766, 8767, 43199, 43200, 43201, 71999, 72000, 72001,
   525959, 525960, 525961, 876599, 876600, 876601}

HourDenominators == {1, 60, 100}

DurationHours ==
  {Rat(n, d) : n \in HourNumerators, d \in HourDenominators}
    \cup {NaN, Infinity, NegInfinity}

(* inputNumber holds the hour count handed to formatDuration. *)
InitDuration ==
  /\ inputNumber \in DurationHours
  /\ inputUnitId = ""
  /\ factorOverrides = NoOverrides
  /\ entryOverrides = NoOverrides
  /\ called = NotCalled
  /\ result = Returned(Null)

CallFormatDuration ==
  /\ called = NotCalled
  /\ called' = [fn |-> "formatDuration"]
  /\ result' = Returned(formatDuration(inputNumber))
  /\ UNCHANGED <<inputNumber, inputUnitId, factorOverrides, entryOverrides>>

NextDuration == CallFormatDuration

SpecDuration == InitDuration /\ [][NextDuration]_vars

-----------------------------------------------------------------------------
(* The text of a number.  A string is modelled as the sequence of its      *)
(* characters.  toLocaleString is that of the en-US locale (groups of      *)
(* three digits separated by commas), and is called on integers and on     *)
(* non-finite numbers only; the infinity sign it renders is written here  *)
(* as the one character "oo".                                              *)

DigitChars == <<"0", "1", "2", "3", "4", "5", "6", "7", "8", "9">>

RECURSIVE DigitsOfNat(_)
DigitsOfNat(i) ==
  IF i < 10 THEN <<DigitChars[i + 1]>>
  ELSE DigitsOfNat(i \div 10) \o <<DigitChars[(i % 10) + 1]>>

Zeros(k) == [i \in 1..k |-> "0"]

(* Number.isInteger *)
IsInteger(x) == IsFinite(x) /\ x.d = 1 /\ x.e >= 0

(* Math.abs *)
AbsR(x) == IF x.n < 0 THEN Neg(x) ELSE x

(* The decimal digits of an integer >= 0 *)
IntegerDigits(x) == DigitsOfNat(x.n) \o Zeros(x.e)

RECURSIVE Grouped(_)
Grouped(digits) ==
  IF Len(digits) <= 3 THEN digits
  ELSE Grouped(SubSeq(digits, 1, Len(digits) - 3)) \o <<",">>
         \o SubSeq(digits, Len(digits) - 2, Len(digits))

SignChars(x) == IF x.n < 0 THEN <<"-">> ELSE <<>>

toLocaleString(x) ==
  IF IsNaN(x) THEN <<"N", "a", "N">>
  ELSE IF ~IsFinite(x) THEN SignChars(x) \o <<"oo">>
  ELSE SignChars(x) \o Grouped(IntegerDigits(AbsR(x)))

(* The digits of toFixed: at least one before the point, k after it. *)
PointBefore(digits, k) ==
  IF k = 0 THEN digits
  ELSE SubSeq(digits, 1, Len(digits) - k) \o <<".">>
         \o SubSeq(digits, Len(digits) - k + 1, Len(digits))

PaddedTo(digits, len) ==
  IF Len(digits) >= len THEN digits ELSE Zeros(len - Len(digits)) \o digits

(* Number.prototype.toFixed for |x| < 1e21: the integer nearest to         *)
(* |x| * 10^k, the larger one on a tie, with the point k digits from the   *)
(* end.                                                                    *)
toFixed(x, k) ==
  IF IsNaN(x) THEN <<"N", "a", "N">>
  ELSE IF ~IsFinite(x) THEN SignChars(x) \o <<"I", "n", "f", "i", "n", "i", "t", "y">>
  ELSE SignChars(x)
         \o PointBefore(PaddedTo(IntegerDigits(Round(Mul(AbsR(x), PowerOfTen(k)))), k + 1), k)

(* floor(log10 x) for a finite x > 0 *)
RECURSIVE Log10Down(_, _)
Log10Down(x, k) ==
  IF Ge(Mul(x, PowerOfTen(k)), Int2Rat(1)) THEN 0 - k ELSE Log10Down(x, k + 1)

Exponent10(x) == IF Ge(x, Int2Rat(1)) THEN FloorLog10(x) ELSE Log10Down(x, 1)

(* x / 10^k *)
ShiftedDown(x, k) ==
  IF k >= 0 THEN Div(x, PowerOfTen(k)) ELSE Mul(x, PowerOfTen(0 - k))

ExponentChars(k) ==
  <<"e">> \o (IF k < 0 THEN <<"-">> ELSE <<"+">>) \o DigitsOfNat(Abs(k))

(* The mantissa of toExponential(2) has three digits; rounded up to 1000   *)
(* it is 1.00 at the next exponent.                                        *)
MantissaChars(m, k) ==
  IF m = Int2Rat(1000) THEN <<"1", ".", "0", "0">> \o ExponentChars(k + 1)
  ELSE PointBefore(IntegerDigits(m), 2) \o ExponentChars(k)

(* Number.prototype.toExponential(2) *)
toExponential2(x) ==
  IF IsNaN(x) THEN <<"N", "a", "N">>
  ELSE IF ~IsFinite(x) THEN SignChars(x) \o <<"I", "n", "f", "i", "n", "i", "t", "y">>
  ELSE IF x = Int2Rat(0) THEN <<"0", ".", "0", "0", "e", "+", "0">>
  ELSE SignChars(x)
         \o MantissaChars(Round(Mul(ShiftedDown(AbsR(x), Exponent10(AbsR(x))),
                                    Int2Rat(100))),
                          Exponent10(AbsR(x)))

(* formatNumber of the engine that has buildAllConversions. *)
formatNumber(n) ==
  IF n = Int2Rat(0) THEN <<"0">>
  ELSE IF IsInteger(n) /\ Lt(AbsR(n), PowerOfTen(15)) THEN toLocaleString(n)
  ELSE IF Ge(AbsR(n), Int2Rat(1000)) THEN toLocaleString(Round(n))
  ELSE IF Ge(AbsR(n), Int2Rat(100)) THEN toFixed(n, 1)
  ELSE IF Ge(AbsR(n), Int2Rat(10)) THEN toFixed(n, 1)
  ELSE IF Ge(AbsR(n), Int2Rat(1)) THEN toFixed(n, 2)
  ELSE IF Ge(AbsR(n), Rat(1, 100)) THEN toFixed(n, 3)
  ELSE IF Gt(n, Int2Rat(0)) THEN <<"<", " ", "0", ".", "0", "1">>
  ELSE IF Lt(n, Int2Rat(0)) THEN <<">", " ", "-", "0", ".", "0", "1">>
  ELSE toExponential2(n)

(* formatNumber of the earlier copy of the engine, the one kept in the     *)
(* same file with buildFormula only.                                       *)
formatNumber_EarlierCopy(n) ==
  IF n = Int2Rat(0) THEN <<"0">>
  ELSE IF IsInteger(n) /\ Lt(AbsR(n), PowerOfTen(15)) THEN toLocaleString(n)
  ELSE IF Ge(AbsR(n), Int2Rat(1000)) THEN toLocaleString(Round(n))
  ELSE IF Ge(AbsR(n), Int2Rat(100)) THEN toFixed(n, 1)
  ELSE IF Ge(AbsR(n), Int2Rat(10)) THEN toFixed(n, 1)
  ELSE IF Ge(AbsR(n), Int2Rat(1)) THEN toFixed(n, 2)
  ELSE IF Ge(AbsR(n), Rat(1, 100)) THEN toFixed(n, 3)
  ELSE toExponential2(n)

(* The numbers formatted: around every threshold, in units, thousandths    *)
(* and hundred-thousandths, of either sign, some large ones and the three  *)
(* non-finite numbers.                                                     *)
NumberNumerators ==
  {0, 1, 5, 9, 10, 11, 99, 100, 101, 999, 1000, 1001, 1234, 9995, 9999, 10000,
   10001, 99949, 99950, 99999, 100000, 100001, 999949, 999950, 999999, 1000000,
   1000001, 1234567}

NumberDenominators == {1, 1000, 100000}

FormattedNumbers ==
  {Rat(n, d) : n \in NumberNumerators, d \in NumberDenominators}
    \cup {Neg(Rat(n, d)) : n \in NumberNumerators \ {0}, d \in NumberDenominators}
    \cup {PowerOfTen(14), PowerOfTen(15), Mul(Rat(12345, 10), PowerOfTen(15))}
    \cup {NaN, Infinity, NegInfinity}

(* inputNumber holds the number handed to formatNumber. *)
InitNumber ==
  /\ inputNumber \in FormattedNumbers
  /\ inputUnitId = ""
  /\ factorOverrides = NoOverrides
  /\ entryOverrides = NoOverrides
  /\ called = NotCalled
  /\ result = Returned(Null)

CallFormatNumber ==
  /\ called = NotCalled
  /\ called' = [fn |-> "formatNumber", copy |-> "current"]
  /\ result' = Returned(formatNumber(inputNumber))
  /\ UNCHANGED <<inputNumber, inputUnitId, factorOverrides, entryOverrides>>

CallFormatNumberEarlierCopy ==
  /\ called = NotCalled
  /\ called' = [fn |-> "formatNumber", copy |-> "earlier"]
  /\ result' = Returned(formatNumber_EarlierCopy(inputNumber))
  /\ UNCHANGED <<inputNumber, inputUnitId, factorOverrides, entryOverrides>>

NextNumber == CallFormatNumber \/ CallFormatNumberEarlierCopy

SpecNumber == InitNumber /\ [][NextNumber]_vars

-----------------------------------------------------------------------------
(* chooseBestUnit on its own: inputNumber holds the base value and         *)
(* inputUnitId the dimension, one of those that have units.                *)

BaseValueNumerators == {0, 1, 2, 5, 999, 1000, 1001, 5000, 999999, 1000000}

BaseValueDenominators == {1, 1000, 2000}

BaseValues ==
  {Rat(n, d) : n \in BaseValueNumerators, d \in BaseValueDenominators}
    \cup {Int2Rat(-5), Int2Rat(999999999), Int2Rat(1000000000),
          Mul(Int2Rat(25), PowerOfTen(11))}
    \cup {NaN, Infinity, NegInfinity}

Dimensions == {units[i].dimension : i \in DOMAIN units}

InitUnit ==
  /\ inputNumber \in BaseValues
  /\ inputUnitId \in Dimensions
  /\ factorOverrides = NoOverrides
  /\ entryOverrides = NoOverrides
  /\ called = NotCalled
  /\ result = Returned(Null)

CallChooseBestUnit ==
  /\ called = NotCalled
  /\ called' = [fn |-> "chooseBestUnit"]
  /\ result' = Returned(chooseBestUnit(inputNumber, inputUnitId))
  /\ UNCHANGED <<inputNumber, inputUnitId, factorOverrides, entryOverrides>>

NextUnit == CallChooseBestUnit

SpecUnit == InitUnit /\ [][NextUnit]_vars

-----------------------------------------------------------------------------
(* chooseEmojiScale on its own: inputNumber holds the raw count.           *)

RawCountNumerators ==
  {1, 4, 5, 14, 15, 999, 1000, 1001, 9994, 9995, 9999, 10000, 10001, 99949, 99950,
   99999, 100000, 999949, 999950, 999999, 1000000, 1234567}

RawCountDenominators == {1, 10, 1000}

RawCounts ==
  {Rat(n, d) : n \in RawCountNumerators, d \in RawCountDenominators}
    \cup {Mul(Int2Rat(n), PowerOfTen(7)) : n \in RawCountNumerators}
    \cup {Int2Rat(0), Int2Rat(-3), NaN, Infinity}

InitScale ==
  /\ inputNumber \in RawCounts
  /\ inputUnitId = ""
  /\ factorOverrides = NoOverrides
  /\ entryOverrides = NoOverrides
  /\ called = NotCalled
  /\ result = Returned(Null)

CallChooseEmojiScale ==
  /\ called = NotCalled
  /\ called' = [fn |-> "chooseEmojiScale"]
  /\ result' = Returned(chooseEmojiScale(inputNumber))
  /\ UNCHANGED <<inputNumber, inputUnitId, factorOverrides, entryOverrides>>

NextScale == CallChooseEmojiScale

SpecScale == InitScale /\ [][NextScale]_vars

-----------------------------------------------------------------------------
(* The converter tab of App: the input, the factor overrides of            *)
(* useUrlState and the entry overrides, with the sentences recomputed on   *)
(* every change.  An entry is selected from the dropdown of a sentence     *)
(* shown, whose options are the alternatives of the sentence.              *)

(* Variant: the new map holds the selected path only. *)
handleEntryChange_DropsOthers(prev, conversionId, entryId) ==
  WithKey(NoOverrides, conversionId, entryId)

(* The updater passed to setEntryOverrides. *)
handleEntryChange(prev, conversionId, entryId) == WithKey(prev, conversionId, entryId)

AppNumbers == {Int2Rat(0), Int2Rat(1), Int2Rat(5000)}

AppUnitIds == {"kW", "km"}

(* The factor shown for editing is that of a step that is not duration    *)
(* based.                                                                  *)
AppRuleIds == {"energy-to-distance-tesla"}

AppFactorArgs == {Rat(1, 2), Undefined}

(* The sentences rendered from a state of App. *)
Sentences(number, unitId, fOverrides, eOverrides) ==
  buildAllConversions(number, unitId, fOverrides, eOverrides)

InitApp ==
  /\ inputNumber \in AppNumbers
  /\ inputUnitId \in AppUnitIds
  /\ factorOverrides = NoOverrides
  /\ entryOverrides = NoOverrides
  /\ called = [fn |-> "App"]
  /\ result = Sentences(inputNumber, inputUnitId, factorOverrides, entryOverrides)

SetInputValue ==
  \E value \in AppNumbers \ {inputNumber} :
    /\ inputNumber' = value
    /\ called' = [fn |-> "setInputValue"]
    /\ result' = Sentences(value, inputUnitId, factorOverrides, entryOverrides)
    /\ UNCHANGED <<inputUnitId, factorOverrides, entryOverrides>>

OnUnitChange ==
  \E id \in AppUnitIds \ {inputUnitId} :
    /\ inputUnitId' = id
    /\ entryOverrides' = NoOverrides
    /\ called' = [fn |-> "onUnitChange"]
    /\ result' = Sentences(inputNumber, id, factorOverrides, NoOverrides)
    /\ UNCHANGED <<inputNumber, factorOverrides>>

OnFactorChange ==
  \E ruleId \in AppRuleIds, newFactor \in AppFactorArgs :
    /\ handleFactorChange(factorOverrides, ruleId, newFactor) # factorOverrides
    /\ factorOverrides' = handleFactorChange(factorOverrides, ruleId, newFactor)
    /\ called' = [fn |-> "handleFactorChange"]
    /\ result' = Sentences(inputNumber, inputUnitId, factorOverrides', entryOverrides)
    /\ UNCHANGED <<inputNumber, inputUnitId, entryOverrides>>

OnEntryChange ==
  \E i \in DOMAIN result.value :
    \E j \in DOMAIN result.value[i].alternatives :
      /\ entryOverrides' = handleEntryChange(entryOverrides, result.value[i].conversionId,
                                             result.value[i].alternatives[j].entry.id)
      /\ called' = [fn |-> "handleEntryChange",
                    conversionId |-> result.value[i].conversionId]
      /\ result' = Sentences(inputNumber, inputUnitId, factorOverrides, entryOverrides')
      /\ UNCHANGED <<inputNumber, inputUnitId, factorOverrides>>

NextApp ==
  \/ SetInputValue
  \/ OnUnitChange
  \/ OnFactorChange
  \/ OnEntryChange

SpecApp == InitApp /\ [][NextApp]_vars

-----------------------------------------------------------------------------
(* The URL written by useUrlState.  inputNumber, inputUnitId and           *)
(* factorOverrides are the state of the hook; result holds what lies       *)
(* outside the React state: timerRef.current, the timers set and not yet   *)
(* run or cleared, each with the state its callback captured, the search   *)
(* parameters of the URL, and the id the next setTimeout returns.  Timer   *)
(* ids are positive; timerRef is 0 while timerRef.current is undefined.    *)
(* The effect that calls syncToUrl runs in the step of the state change    *)
(* that triggers it.                                                       *)

MaxTimers == 4

(* String(x) for a number that is a terminating decimal, or NaN *)
StringOf(x) ==
  IF IsNaN(x) THEN <<"N", "a", "N">>
  ELSE IF x.e >= 0 THEN SignChars(x) \o IntegerDigits(AbsR(x))
  ELSE SignChars(x) \o PointBefore(PaddedTo(DigitsOfNat(Abs(x.n)), 1 - x.e), 0 - x.e)

(* The pairs key:value joined by encodeFactorOverrides, as a set. *)
encodeFactorOverrides(overrides) ==
  {[key |-> k, val |-> StringOf(overrides[k])] : k \in DOMAIN overrides}

(* The search parameters the timer callback sets from the state captured;  *)
(* f is set for a non-empty encoding only.                                 *)
ParamsOf(state) ==
  IF encodeFactorOverrides(state.factorOverrides) = {}
  THEN [v |-> StringOf(state.inputValue), u |-> state.inputUnitId]
  ELSE [v |-> StringOf(state.inputValue), u |-> state.inputUnitId,
        f |-> encodeFactorOverrides(state.factorOverrides)]

UrlState(value, unitId, overrides) ==
  [inputValue |-> value, inputUnitId |-> unitId, factorOverrides |-> overrides]

(* clearTimeout: the timer of this id is dropped, if it is still set. *)
clearTimeout(timers, id) == {t \in timers : t.id # id}

(* Variant of syncToUrl that sets the new timer without clearing the one   *)
(* held.                                                                   *)
syncToUrl_KeepsPending(effects, state) ==
  [timerRef |-> effects.nextId,
   timers |-> effects.timers \cup {[id |-> effects.nextId, state |-> state]},
   url |-> effects.url,
   nextId |-> effects.nextId + 1]

syncToUrl(effects, state) ==
  [timerRef |-> effects.nextId,
   timers |-> (IF effects.timerRef = 0 THEN effects.timers
               ELSE clearTimeout(effects.timers, effects.timerRef))
                \cup {[id |-> effects.nextId, state |-> state]},
   url |-> effects.url,
   nextId |-> effects.nextId + 1]

(* The callback of a timer: history.replaceState with the parameters of    *)
(* the state captured.                                                     *)
TimerCallback(effects, timer) ==
  [timerRef |-> effects.timerRef,
   timers |-> effects.timers \ {timer},
   url |-> ParamsOf(timer.state),
   nextId |-> effects.nextId]

UrlNumbers == {Int2Rat(1), Int2Rat(250), Rat(1, 2)}

UrlUnitIds == {"GW", "kWh"}

UrlRuleIds == {"energy-to-distance-tesla"}

UrlFactorArgs == {Rat(1, 2), Undefined}

(* The page is loaded without search parameters: the state is the default  *)
(* one, and the effect of the first render has set the first timer.        *)
InitUrl ==
  /\ inputNumber = Int2Rat(1)
  /\ inputUnitId = "GW"
  /\ factorOverrides = NoOverrides
  /\ entryOverrides = NoOverrides
  /\ called = [fn |-> "useUrlState"]
  /\ result = syncToUrl([timerRef |-> 0, timers |-> {}, url |-> Null, nextId |-> 1],
                        UrlState(inputNumber, inputUnitId, factorOverrides))

ChangeInputValue ==
  /\ result.nextId <= MaxTimers
  /\ \E value \in UrlNumbers \ {inputNumber} :
       /\ inputNumber' = value
       /\ result' = syncToUrl(result, UrlState(value, inputUnitId, factorOverrides))
  /\ called' = [fn |-> "setInputValue"]
  /\ UNCHANGED <<inputUnitId, factorOverrides, entryOverrides>>

ChangeInputUnitId ==
  /\ result.nextId <= MaxTimers
  /\ \E id \in UrlUnitIds \ {inputUnitId} :
       /\ inputUnitId' = id
       /\ result' = syncToUrl(result, UrlState(inputNumber, id, factorOverrides))
  /\ called' = [fn |-> "setInputUnitId"]
  /\ UNCHANGED <<inputNumber, factorOverrides, entryOverrides>>

(* handleFactorChange always sets a new object, so the effect runs even    *)
(* when the overrides are the same as before.                              *)
ChangeFactorOverrides ==
  /\ result.nextId <= MaxTimers
  /\ \E ruleId \in UrlRuleIds, newFactor \in UrlFactorArgs :
       /\ factorOverrides' = handleFactorChange(factorOverrides, ruleId, newFactor)
       /\ result' = syncToUrl(result, UrlState(inputNumber, inputUnitId, factorOverrides'))
  /\ called' = [fn |-> "handleFactorChange"]
  /\ UNCHANGED <<inputNumber, inputUnitId, entryOverrides>>

(* 300 ms after it was set, a timer that was not cleared runs. *)
TimerFires ==
  /\ \E timer \in result.timers : result' = TimerCallback(result, timer)
  /\ called' = [fn |-> "timer"]
  /\ UNCHANGED <<inputNumber, inputUnitId, factorOverrides, entryOverrides>>

NextUrl ==
  \/ ChangeInputValue
  \/ ChangeInputUnitId
  \/ ChangeFactorOverrides
  \/ TimerFires

SpecUrl == InitUrl /\ [][NextUrl]_vars

(* The event loop runs every timer that is due. *)
SpecUrlFair == SpecUrl /\ WF_vars(TimerFires)

-----------------------------------------------------------------------------
(* Vocabulary of the properties *)

Answered == called.fn = "buildAllConversions" /\ ~result.threw

KnownUnit == inputUnitId \in UnitIds

InputBase == Mul(inputNumber, FindUnit(inputUnitId).toBase)

InputDimension == FindUnit(inputUnitId).dimension

PositiveInput == KnownUnit /\ Gt(InputBase, Int2Rat(0))

RuleOf(convId) == CHOOSE r \in Range(conversionRules) : r.id = convId

DurationPath(convId) == convId \in RuleIds /\ RuleOf(convId).durationBased

(* The candidate group of a path: the candidates discovery yields for it. *)
PathCandidates(convId) ==
  {c \in Range(findCandidates(InputBase, InputDimension, factorOverrides)) :
     ConvIdOf(c) = convId}

SentencesOf(convId) ==
  {i \in DOMAIN result.value : result.value[i].conversionId = convId}

Overridden(convId) ==
  /\ convId \in DOMAIN entryOverrides
  /\ \E c \in PathCandidates(convId) : c.entry.id = entryOverrides[convId]

(* Duration of an entry on a duration path: input energy / entry power,    *)
(* or entry energy / input power.                                          *)
DurationOf(entry) ==
  IF InputDimension = "energy" THEN Div(InputBase, toBaseValue(entry))
  ELSE Div(toBaseValue(entry), InputBase)

DurationInBounds(h) == Ge(h, Rat(1, 60)) /\ Le(h, Int2Rat(876600))

(* 10^|log10(h) - 1| *)
DistanceFromTenHours(h) ==
  IF Ge(h, Int2Rat(10)) THEN Div(h, Int2Rat(10)) ELSE Div(Int2Rat(10), h)

-----------------------------------------------------------------------------
(* C1: for a positive input, no sentence of a count-based path (direct or  *)
(* a rule not flagged durationBased) has a chosen entry with ratio below   *)
(* 0.1, nor an alternative with ratio below 0.1, whatever the overrides.   *)
C1_ThresholdExclusion ==
  (Answered /\ PositiveInput) =>
    \A i \in DOMAIN result.value :
      LET s == result.value[i]
      IN  ~DurationPath(s.conversionId) =>
            /\ ~Lt(s.count, Rat(1, 10))
            /\ \A j \in DOMAIN s.alternatives : ~Lt(s.alternatives[j].count, Rat(1, 10))

(* C2: for a positive input, no sentence of a duration-based path has a    *)
(* chosen entry with a duration below 1 minute or above 100 years, nor     *)
(* such an alternative, with or without entry overrides.                   *)
C2_DurationBounds ==
  (Answered /\ PositiveInput) =>
    \A i \in DOMAIN result.value :
      LET s == result.value[i]
      IN  DurationPath(s.conversionId) =>
            /\ DurationInBounds(s.durationHours)
            /\ DurationInBounds(DurationOf(s.outputEntry))
            /\ \A j \in DOMAIN s.alternatives :
                 DurationInBounds(s.alternatives[j].durationHours)

C4_BiggestFit ==
  (Answered /\ PositiveInput) =>
    \A convId \in ConversionIds :
      (/\ ~DurationPath(convId)
       /\ convId \notin DOMAIN entryOverrides
       /\ \E c \in PathCandidates(convId) : Ge(c.rawCount, Int2Rat(1)))
      => /\ Cardinality(SentencesOf(convId)) = 1
         /\ \A i \in SentencesOf(convId) :
              LET s == result.value[i]
              IN  /\ Ge(s.count, Int2Rat(1))
                  /\ \E c \in PathCandidates(convId) :
                       c.entry = s.outputEntry /\ c.rawCount = s.count
                  /\ \A c \in PathCandidates(convId) :
                       Ge(c.rawCount, Int2Rat(1)) =>
                         /\ Le(s.count, c.rawCount)
                         /\ Ge(toBaseValue(s.outputEntry), toBaseValue(c.entry))

(* C4 witness: two candidates of different ratio fit, a third does not. *)
C4_Witness ==
  /\ Answered /\ PositiveInput
  /\ \E convId \in ConversionIds \ DOMAIN entryOverrides :
       /\ ~DurationPath(convId)
       /\ SentencesOf(convId) # {}
       /\ \E c1, c2, c3 \in PathCandidates(convId) :
            /\ Ge(c1.rawCount, Int2Rat(1))
            /\ Gt(c2.rawCount, c1.rawCount)
            /\ Lt(c3.rawCount, Int2Rat(1))

C7_EmptyInput ==
  (called.fn = "buildAllConversions" /\ KnownUnit /\ Le(inputNumber, Int2Rat(0))) =>
    result = Returned(<<>>)

(* C7 witness: input 0 with an entry override naming an entry of the group *)
C7_Witness ==
  /\ called.fn = "buildAllConversions" /\ KnownUnit
  /\ inputNumber = Int2Rat(0)
  /\ \E convId \in DOMAIN entryOverrides : Overridden(convId)
  /\ result = Returned(<<>>)

(* C8: a call whose base value is NaN, with a unit of the table, returns   *)
(* no sentence, whatever the overrides.                                    *)
C8_NaNInput ==
  (called.fn = "buildAllConversions" /\ KnownUnit /\ IsNaN(InputBase)) =>
    result = Returned(<<>>)

(* C9: a call of buildAllConversions, buildFormula or                      *)
(* getReachableQuantities with a unit id absent from the unit table throws *)
(* the 'Unknown unit' error, also when the input number is 0, negative or  *)
(* NaN; with a unit of the table none of them throws, so the error is told *)
(* apart from every returned result.                                       *)
C9_UnknownUnitThrows ==
  (called.fn \in {"buildAllConversions", "buildFormula", "getReachableQuantities"}) =>
    IF KnownUnit
    THEN ~result.threw
    ELSE result = Throw(<<"Unknown unit: ", inputUnitId>>)

(* C9 witness: a unit absent from the table with input number 0 or below,  *)
(* and the call has thrown.                                                *)
C9_Witness ==
  /\ called.fn \in {"buildAllConversions", "buildFormula"}
  /\ ~KnownUnit
  /\ Le(inputNumber, Int2Rat(0))
  /\ result.threw

(* The one-hop candidate set of the call made, in closed form: direct ones, and *)
(* one hop through each rule that leaves from or, when bidirectional,      *)
(* arrives at the input dimension.                                         *)
FactorOf(rule) ==
  IF rule.id \in DOMAIN factorOverrides THEN factorOverrides[rule.id] ELSE rule.factor

EntriesIn(dimension) ==
  {e \in Range(quantities) :
     FindUnit(e.unitId).dimension = dimension
       /\ Gt(Mul(e.value, FindUnit(e.unitId).toBase), Int2Rat(0))}

ExpectedCandidates ==
  LET base(e) == Mul(e.value, FindUnit(e.unitId).toBase)
      direct == {[entry |-> e, rawCount |-> Div(InputBase, base(e)), steps |-> <<>>,
                  outputBaseValue |-> InputBase] : e \in EntriesIn(InputDimension)}
      forward(r) ==
        LET converted == Mul(InputBase, FactorOf(r))
        IN  {[entry |-> e, rawCount |-> Div(converted, base(e)),
              steps |-> << [rule |-> r, intermediateValue |-> converted,
                            reverse |-> FALSE, factor |-> FactorOf(r)] >>,
              outputBaseValue |-> converted] : e \in EntriesIn(r.toDimension)}
      reverse(r) ==
        LET converted == Div(InputBase, FactorOf(r))
        IN  {[entry |-> e, rawCount |-> Div(converted, base(e)),
              steps |-> << [rule |-> r, intermediateValue |-> converted,
                            reverse |-> TRUE, factor |-> FactorOf(r)] >>,
              outputBaseValue |-> converted] : e \in EntriesIn(r.fromDimension)}
  IN  direct
        \cup UNION {forward(r) : r \in {x \in Range(conversionRules) :
                                          x.fromDimension = InputDimension}}
        \cup UNION {reverse(r) : r \in {x \in Range(conversionRules) :
                                          /\ x.bidirectional
                                          /\ x.toDimension = InputDimension}}

(* C10: findCandidates yields exactly one candidate per entry of the input *)
(* dimension (ratio inputBase / entryBase, no step) and, per rule leaving  *)
(* from the input dimension (converted = inputBase * factor) or            *)
(* bidirectional and arriving at it (converted = inputBase / factor), one  *)
(* candidate per entry of the rule's other dimension (ratio converted /    *)
(* entryBase, one step); nothing else, nothing twice, never two steps.     *)
C10_CandidateSet ==
  (called.fn = "findCandidates") =>
    /\ Range(result.value) = ExpectedCandidates
    /\ Len(result.value) = Cardinality(ExpectedCandidates)
    /\ \A i \in DOMAIN result.value : Len(result.value[i].steps) <= 1

(* C10 witness: an input that has direct, forward and reverse candidates,  *)
(* through a reverse rule whose factor is not 1.                           *)
C10_Witness ==
  /\ called.fn = "findCandidates"
  /\ \E i, j, k \in DOMAIN result.value :
       /\ result.value[i].steps = <<>>
       /\ Len(result.value[j].steps) = 1 /\ ~result.value[j].steps[1].reverse
       /\ Len(result.value[k].steps) = 1 /\ result.value[k].steps[1].reverse
       /\ result.value[k].steps[1].factor # Int2Rat(1)

(* The value converted through a rule for the call made, with the override *)
(* of the rule when there is one: multiplied forward, divided in reverse.  *)
ConvertedThrough(rule) ==
  IF rule.fromDimension = InputDimension
  THEN Mul(InputBase, FactorOf(rule))
  ELSE Div(InputBase, FactorOf(rule))

(* C11: when the factor overrides hold a value for a rule, every candidate *)
(* of findCandidates through that rule, and the sentence of that path with *)
(* its alternatives, carry the value converted with the override           *)
(* (multiplied forward, divided in reverse) and the ratio converted /      *)
(* entryBase; on a count-based path without entry override the chosen      *)
(* ratio is the smallest of the ratios >= 1 so computed; and the rule      *)
(* carried in the step is the static rule, its factor untouched.           *)
C11_FactorOverrideUsed ==
  /\ (called.fn = "findCandidates") =>
       \A i \in DOMAIN result.value :
         LET c == result.value[i]
         IN  (Len(c.steps) = 1 /\ c.steps[1].rule.id \in DOMAIN factorOverrides) =>
               /\ c.steps[1].rule \in Range(conversionRules)
               /\ c.steps[1].factor = factorOverrides[c.steps[1].rule.id]
               /\ c.steps[1].reverse = (c.steps[1].rule.fromDimension # InputDimension)
               /\ c.steps[1].intermediateValue = ConvertedThrough(c.steps[1].rule)
               /\ c.outputBaseValue = ConvertedThrough(c.steps[1].rule)
               /\ c.rawCount = Div(ConvertedThrough(c.steps[1].rule), toBaseValue(c.entry))
  /\ (Answered /\ PositiveInput) =>
       \A i \in DOMAIN result.value :
         LET s == result.value[i]
         IN  (s.conversionId \in DOMAIN factorOverrides) =>
               /\ Len(s.steps) = 1
               /\ s.steps[1].rule = RuleOf(s.conversionId)
               /\ s.steps[1].factor = factorOverrides[s.conversionId]
               /\ s.steps[1].intermediateValue = ConvertedThrough(RuleOf(s.conversionId))
               /\ s.outputBaseValue = ConvertedThrough(RuleOf(s.conversionId))
               /\ s.count = Div(ConvertedThrough(RuleOf(s.conversionId)),
                                toBaseValue(s.outputEntry))
               /\ \A j \in DOMAIN s.alternatives :
                    s.alternatives[j].count
                      = Div(ConvertedThrough(RuleOf(s.conversionId)),
                            toBaseValue(s.alternatives[j].entry))
               /\ (/\ ~DurationPath(s.conversionId)
                   /\ s.conversionId \notin DOMAIN entryOverrides
                   /\ Ge(s.count, Int2Rat(1)))
                  => \A e \in EntriesIn(getDimension(s.outputEntry)) :
                       LET ratio == Div(ConvertedThrough(RuleOf(s.conversionId)),
                                        toBaseValue(e))
                       IN  Ge(ratio, Int2Rat(1)) => Le(s.count, ratio)

(* C11 witness: a sentence of a path traversed in reverse whose rule has   *)
(* an override different from its static factor.                           *)
C11_Witness ==
  /\ Answered /\ PositiveInput
  /\ \E i \in DOMAIN result.value :
       /\ result.value[i].conversionId \in DOMAIN factorOverrides
       /\ result.value[i].steps[1].reverse
       /\ factorOverrides[result.value[i].conversionId]
            # RuleOf(result.value[i].conversionId).factor

(* A factor the override map may take: finite and above 0. *)
ValidFactor(v) == IsFinite(v) /\ Gt(v, Int2Rat(0))

(* C12: a factor that is 0, negative, NaN or infinite is never stored:     *)
(* after start-up from the URL parameter f no rule holds such a value, and *)
(* handleFactorChange called with such a value leaves the override map as  *)
(* it was.                                                                 *)
C12_InvalidFactorRejected ==
  /\ [](called.fn = "useUrlState" =>
          \A k \in DOMAIN factorOverrides : ValidFactor(factorOverrides[k]))
  /\ [][(/\ called'.fn = "handleFactorChange"
         /\ called'.newFactor # Undefined
         /\ ~ValidFactor(called'.newFactor))
        => factorOverrides' = factorOverrides]_vars

(* Every key but ruleId is held, or absent, after as before. *)
OthersUnchanged(before, after, ruleId) ==
  /\ DOMAIN after \ {ruleId} = DOMAIN before \ {ruleId}
  /\ \A k \in DOMAIN before \ {ruleId} : after[k] = before[k]

(* C13: handleFactorChange(ruleId, v) with a defined v makes the map hold  *)
(* v for ruleId, with undefined it removes the key; every other key keeps  *)
(* its value or its absence; and a query made with the map takes the       *)
(* static factor for every rule without key, the held value otherwise.     *)
C13_FactorChangeFrame ==
  /\ [][called'.fn = "handleFactorChange" =>
          /\ IF called'.newFactor = Undefined
             THEN called'.ruleId \notin DOMAIN factorOverrides'
             ELSE /\ called'.ruleId \in DOMAIN factorOverrides'
                  /\ factorOverrides'[called'.ruleId] = called'.newFactor
          /\ OthersUnchanged(factorOverrides, factorOverrides', called'.ruleId)]_vars
  /\ [](called.fn = "findCandidates" =>
          \A i \in DOMAIN result.value :
            Len(result.value[i].steps) = 1 =>
              result.value[i].steps[1].factor
                = (IF result.value[i].steps[1].rule.id \in DOMAIN factorOverrides
                   THEN factorOverrides[result.value[i].steps[1].rule.id]
                   ELSE result.value[i].steps[1].rule.factor))

(* C13 witness: a key has just been removed while another rule keeps its   *)
(* override.                                                               *)
C13_Witness ==
  /\ called.fn = "handleFactorChange"
  /\ called.newFactor = Undefined
  /\ called.ruleId \notin DOMAIN factorOverrides
  /\ \E k \in DOMAIN factorOverrides : factorOverrides[k] = Rat(1, 2)

(* A candidate passing the filter of its path: the count threshold, or the *)
(* duration bounds on a duration-based path.                               *)
Admissible(c, convId) ==
  IF DurationPath(convId) THEN DurationInBounds(DurationOf(c.entry))
  ELSE Ge(c.rawCount, Rat(1, 10))

(* A rule that can be traversed from the input dimension. *)
Traversable(rule) ==
  \/ rule.fromDimension = InputDimension
  \/ rule.bidirectional /\ rule.toDimension = InputDimension

(* C14: for a positive input the call does not throw, the conversionId     *)
(* values of the returned sentences are pairwise distinct, each is         *)
(* 'direct' or the id of a rule traversable from the input dimension, and  *)
(* a path with no admissible candidate and no entry override naming an     *)
(* entry of its group has no sentence.                                     *)
C14_OneSentencePerPath ==
  (called.fn = "buildAllConversions" /\ PositiveInput) =>
    /\ ~result.threw
    /\ \A i, j \in DOMAIN result.value :
         i # j => result.value[i].conversionId # result.value[j].conversionId
    /\ \A i \in DOMAIN result.value :
         \/ result.value[i].conversionId = "direct"
         \/ \E r \in Range(conversionRules) :
              r.id = result.value[i].conversionId /\ Traversable(r)
    /\ \A convId \in ConversionIds :
         (/\ ~Overridden(convId)
          /\ \A c \in PathCandidates(convId) : ~Admissible(c, convId))
         => SentencesOf(convId) = {}

(* The alternatives of a sentence, as the set of entry ids listed. *)
AlternativeIds(sentence) ==
  {sentence.alternatives[i].entry.id : i \in DOMAIN sentence.alternatives}

(* The candidates of a path's group that pass the path's filter. *)
AdmissibleOf(cands, convId) ==
  {c \in Range(cands) : ConvIdOf(c) = convId /\ Admissible(c, convId)}

(* The alternatives of a sentence are the admissible candidates, each      *)
(* once with its own ratio, by non-increasing base value.                  *)
AlternativesAre(s, admissible) ==
  /\ AlternativeIds(s) = {c.entry.id : c \in admissible}
  /\ Len(s.alternatives) = Cardinality(admissible)
  /\ \A i \in DOMAIN s.alternatives :
       \E c \in admissible :
         /\ c.entry = s.alternatives[i].entry
         /\ c.rawCount = s.alternatives[i].count
  /\ \A i, j \in DOMAIN s.alternatives :
       i < j => Ge(toBaseValue(s.alternatives[i].entry),
                   toBaseValue(s.alternatives[j].entry))

AlternativesOf(sentences, cands) ==
  \A k \in DOMAIN sentences :
    AlternativesAre(sentences[k], AdmissibleOf(cands, sentences[k].conversionId))

(* C15: in every returned sentence the alternatives are exactly the        *)
(* candidates of the group that pass the path's filter (ratio >= 0.1 on a  *)
(* count-based path, duration within [1/60, 876600] hours on a             *)
(* duration-based path), each listed once with its own ratio, in order of  *)
(* non-increasing base value of the reference entry.                       *)
C15_AlternativesFilteredSorted ==
  (Answered /\ PositiveInput) =>
    AlternativesOf(result.value, findCandidates(InputBase, InputDimension, factorOverrides))

(* A count-based sentence and a duration-based sentence, each listing      *)
(* several alternatives while a candidate of its group is filtered out.    *)
C15_Witness ==
  /\ Answered /\ PositiveInput
  /\ \E k \in DOMAIN result.value :
       /\ ~DurationPath(result.value[k].conversionId)
       /\ Len(result.value[k].alternatives) >= 2
       /\ Cardinality(PathCandidates(result.value[k].conversionId))
            > Len(result.value[k].alternatives)
  /\ \E k \in DOMAIN result.value :
       /\ DurationPath(result.value[k].conversionId)
       /\ Len(result.value[k].alternatives) >= 2
       /\ Cardinality(PathCandidates(result.value[k].conversionId))
            > Len(result.value[k].alternatives)

(* The call buildAllConversions(1, 'GW') without overrides has returned. *)
OneGigawatt ==
  /\ Answered
  /\ inputNumber = Int2Rat(1) /\ inputUnitId = "GW"
  /\ factorOverrides = NoOverrides /\ entryOverrides = NoOverrides

EnergyEntries == {e \in Range(quantities) : getDimension(e) = "energy"}

ReachablePairs(reachable) ==
  {<<reachable[i].entry, reachable[i].conversionId>> : i \in DOMAIN reachable}

(* The (entry, path id) pairs of a list of candidates. *)
CandidatePairs(cands) == {<<cands[i].entry, ConvIdOf(cands[i])>> : i \in DOMAIN cands}

PositiveNumbers == {x \in InputNumbers : Gt(x, Int2Rat(0))}

(* C17: for a known input unit the (entry, path id) pairs of               *)
(* getReachableQuantities are those of the candidates of findCandidates,   *)
(* for every positive input and every factor-override map; and every       *)
(* chosen entry and every alternative of a returned sentence is among the  *)
(* reachable entries of the sentence's path.                               *)
C17_ReachableMatchesCandidates ==
  /\ (called.fn = "findCandidates" /\ PositiveInput) =>
       CandidatePairs(result.value)
         = ReachablePairs(getReachableQuantities(inputUnitId).value)
  /\ (called.fn = "getReachableQuantities" /\ KnownUnit) =>
       /\ ~result.threw
       /\ \A x \in PositiveNumbers, fo \in FactorOverrideMaps :
            ReachablePairs(result.value)
              = CandidatePairs(findCandidates(Mul(x, FindUnit(inputUnitId).toBase),
                                              InputDimension, fo))
  /\ (Answered /\ PositiveInput) =>
       \A k \in DOMAIN result.value :
         /\ <<result.value[k].outputEntry, result.value[k].conversionId>>
              \in ReachablePairs(getReachableQuantities(inputUnitId).value)
         /\ \A i \in DOMAIN result.value[k].alternatives :
              <<result.value[k].alternatives[i].entry, result.value[k].conversionId>>
                \in ReachablePairs(getReachableQuantities(inputUnitId).value)

(* Candidates found under a factor override, on a direct path, a forward   *)
(* hop and a reverse hop at once.                                          *)
C17_Witness ==
  /\ called.fn = "findCandidates" /\ PositiveInput
  /\ factorOverrides # NoOverrides
  /\ \E i, j, k \in DOMAIN result.value :
       /\ Len(result.value[i].steps) = 0
       /\ Len(result.value[j].steps) = 1 /\ ~result.value[j].steps[1].reverse
       /\ Len(result.value[k].steps) = 1 /\ result.value[k].steps[1].reverse

ScaleFactors == {Rat(1, 2), Int2Rat(3), Int2Rat(20)}

(* The candidates of the scaled input are those of the input, entry by     *)
(* entry and path by path, each ratio multiplied by k.                     *)
ScaledByK(scaled, cands, k) ==
  /\ Len(scaled) = Len(cands)
  /\ \A i \in DOMAIN cands :
       /\ scaled[i].entry = cands[i].entry
       /\ ConvIdOf(scaled[i]) = ConvIdOf(cands[i])
       /\ scaled[i].rawCount = Mul(k, cands[i].rawCount)

WordedAs(amount, unit) == result.value = [amount |-> amount, unit |-> unit]

(* C20: formatDuration words an hour count h in seconds (h * 3600) for     *)
(* h < 1/60, in minutes (h * 60) for 1/60 <= h < 1, in hours for           *)
(* 1 <= h < 48, in days (h / 24) for 48 <= h < 720, in months (h / 730)    *)
(* for 720 <= h < 8766 and in years (h / 8766) for h >= 8766; 47.99 is     *)
(* worded in hours and 48 in days.                                         *)
C20_DurationThresholds ==
  called.fn = "formatDuration" =>
    /\ Lt(inputNumber, Rat(1, 60)) =>
         WordedAs(Mul(inputNumber, Int2Rat(3600)), "seconds")
    /\ (Ge(inputNumber, Rat(1, 60)) /\ Lt(inputNumber, Int2Rat(1))) =>
         WordedAs(Mul(inputNumber, Int2Rat(60)), "minutes")
    /\ (Ge(inputNumber, Int2Rat(1)) /\ Lt(inputNumber, Int2Rat(48))) =>
         WordedAs(inputNumber, "hours")
    /\ (Ge(inputNumber, Int2Rat(48)) /\ Lt(inputNumber, Int2Rat(720))) =>
         WordedAs(Div(inputNumber, Int2Rat(24)), "days")
    /\ (Ge(inputNumber, Int2Rat(720)) /\ Lt(inputNumber, Int2Rat(8766))) =>
         WordedAs(Div(inputNumber, Int2Rat(730)), "months")
    /\ Ge(inputNumber, Int2Rat(8766)) =>
         WordedAs(Div(inputNumber, Int2Rat(8766)), "years")
    /\ inputNumber = Rat(4799, 100) => result.value.unit = "hours"
    /\ inputNumber = Int2Rat(48) => result.value.unit = "days"

(* 47.99 hours has been worded: the last hundredth of an hour before the   *)
(* switch to days.                                                         *)
C20_Witness ==
  /\ called.fn = "formatDuration"
  /\ inputNumber = Rat(4799, 100)
  /\ WordedAs(Rat(4799, 100), "hours")

(* The number of characters after the decimal point of a text, 0 without   *)
(* a point.                                                                *)
DecimalsOf(text) ==
  IF \E i \in 1..Len(text) : text[i] = "."
  THEN Len(text) - (CHOOSE i \in 1..Len(text) : text[i] = ".")
  ELSE 0

HasChar(text, c) == \E i \in 1..Len(text) : text[i] = c

(* "< 0.01" or "> -0.01" *)
BoundedInequality(text) ==
  \/ text = <<"<", " ", "0", ".", "0", "1">>
  \/ text = <<">", " ", "-", "0", ".", "0", "1">>

(* |inputNumber| is in [lo, hi) *)
MagnitudeWithin(lo, hi) == Ge(AbsR(inputNumber), lo) /\ Lt(AbsR(inputNumber), hi)

(* C21: formatNumber renders 0 as "0", an integer of magnitude below 1e15  *)
(* without fractional digits, a non-integer with 0 decimals from 1000 on,  *)
(* 1 decimal in [10, 1000), 2 decimals in [1, 10), 3 decimals in           *)
(* [0.01, 1), and a non-zero number of magnitude below 0.01 as a bounded   *)
(* inequality, never in scientific notation.                               *)
C21_FormatNumberTiers ==
  (called.fn = "formatNumber" /\ IsFinite(inputNumber)) =>
    /\ inputNumber = Int2Rat(0) => result.value = <<"0">>
    /\ (IsInteger(inputNumber) /\ Lt(AbsR(inputNumber), PowerOfTen(15))) =>
         DecimalsOf(result.value) = 0
    /\ (~IsInteger(inputNumber) /\ Ge(AbsR(inputNumber), Int2Rat(1000))) =>
         DecimalsOf(result.value) = 0
    /\ (~IsInteger(inputNumber) /\ MagnitudeWithin(Int2Rat(10), Int2Rat(1000))) =>
         DecimalsOf(result.value) = 1
    /\ (~IsInteger(inputNumber) /\ MagnitudeWithin(Int2Rat(1), Int2Rat(10))) =>
         DecimalsOf(result.value) = 2
    /\ (~IsInteger(inputNumber) /\ MagnitudeWithin(Rat(1, 100), Int2Rat(1))) =>
         DecimalsOf(result.value) = 3
    /\ (inputNumber # Int2Rat(0) /\ Lt(AbsR(inputNumber), Rat(1, 100))) =>
         /\ BoundedInequality(result.value)
         /\ ~HasChar(result.value, "e")

(* The units of the dimension handed to chooseBestUnit. *)
UnitsOfDimension == {units[i] : i \in {j \in DOMAIN units : units[j].dimension = inputUnitId}}

(* Those of them in which the base value displays as at least 1. *)
UnitsDisplayingOne ==
  {u \in UnitsOfDimension : Ge(Div(inputNumber, u.toBase), Int2Rat(1))}

(* C22: chooseBestUnit returns, among the units of the dimension, the one  *)
(* with the largest toBase in which the base value is at least 1, and the  *)
(* unit with the smallest toBase when there is no such unit.               *)
C22_LargestUnitFromOne ==
  called.fn = "chooseBestUnit" =>
    /\ result.value \in UnitsOfDimension
    /\ UnitsDisplayingOne # {} =>
         /\ result.value \in UnitsDisplayingOne
         /\ \A u \in UnitsDisplayingOne : Le(u.toBase, result.value.toBase)
    /\ UnitsDisplayingOne = {} =>
         \A u \in UnitsOfDimension : Le(result.value.toBase, u.toBase)

(* 5000 W has been given the unit kW: W fits too and is smaller, GW does   *)
(* not fit.                                                                *)
C22_Witness ==
  /\ called.fn = "chooseBestUnit"
  /\ inputNumber = Int2Rat(5000)
  /\ inputUnitId = "power"
  /\ result.value.id = "kW"
  /\ Cardinality(UnitsDisplayingOne) = 3

(* 10^k for an integer k >= 0 *)
IsPowerOfTen(x) == x.n = 1 /\ x.d = 1 /\ x.e >= 0

ShownFor(sentences, convId, entryId) ==
  \E i \in DOMAIN sentences :
    /\ sentences[i].conversionId = convId
    /\ sentences[i].outputEntry.id = entryId

(* Every entry selected is the entry of its path's sentence, for an input  *)
(* that has sentences at all.                                              *)
SelectionsShown ==
  (called.fn # "none" /\ PositiveInput) =>
    \A convId \in DOMAIN entryOverrides :
      ShownFor(result.value, convId, entryOverrides[convId])

(* A step other than a unit change keeps every selection but the one made  *)
(* anew on its own path; a unit change clears them all.                    *)
SelectionsKept ==
  /\ called'.fn = "onUnitChange" => entryOverrides' = NoOverrides
  /\ called'.fn # "onUnitChange" =>
       \A convId \in DOMAIN entryOverrides :
         \/ /\ called'.fn = "handleEntryChange"
            /\ called'.conversionId = convId
         \/ /\ convId \in DOMAIN entryOverrides'
            /\ entryOverrides'[convId] = entryOverrides[convId]

DurationsWithin(cands) ==
  {DurationOf(c.entry) : c \in {d \in cands : DurationInBounds(DurationOf(d.entry))}}

DurationsBeyond(cands) ==
  {DurationOf(c.entry) : c \in {d \in cands : ~DurationInBounds(DurationOf(d.entry))}}

(* Every duration of the first set scores strictly above every one of the  *)
(* second.                                                                 *)
ScoredAbove(within, beyond) ==
  \A h1 \in within : \A h2 \in beyond : ScoreGt(scoreDuration(h1), scoreDuration(h2))

(* The sentence of the path, when the path has a candidate within the      *)
(* bounds, has a duration within the bounds.                               *)
ChosenWithin(convId, within) ==
  within # {} =>
    /\ SentencesOf(convId) # {}
    /\ \A i \in SentencesOf(convId) : result.value[i].durationHours \in within

PenaltySeparates(convId, cands) ==
  /\ ChosenWithin(convId, DurationsWithin(cands))
  /\ ScoredAbove(DurationsWithin(cands), DurationsBeyond(cands))

(* C25: on a duration-based path without entry override that has a         *)
(* candidate within [1 minute, 100 years], the duration of the chosen      *)
(* entry is within the bounds, and every candidate out of the bounds       *)
(* scores strictly below every candidate within them.                      *)
C25_PenaltyKeepsChoiceInBounds ==
  (Answered /\ PositiveInput) =>
    \A convId \in ConversionIds \ DOMAIN entryOverrides :
      DurationPath(convId) => PenaltySeparates(convId, PathCandidates(convId))

(* A duration path whose chosen entry is within the bounds while one       *)
(* candidate out of the bounds is nearer to 10 hours than a candidate      *)
(* within them.                                                            *)
C25_Witness ==
  /\ Answered /\ PositiveInput
  /\ \E convId \in ConversionIds \ DOMAIN entryOverrides :
       /\ DurationPath(convId)
       /\ \E i \in SentencesOf(convId) : DurationInBounds(result.value[i].durationHours)
       /\ \E h1 \in DurationsWithin(PathCandidates(convId)) :
            \E h2 \in DurationsBeyond(PathCandidates(convId)) :
              Lt(DistanceFromTenHours(h2), DistanceFromTenHours(h1))

(* The target of the call is an entry reachable from the input unit on the *)
(* path named with it.                                                     *)
TargetReachable(reachable) ==
  \E i \in DOMAIN reachable :
    /\ reachable[i].entry.id = called.targetEntryId
    /\ reachable[i].conversionId = called.targetConversionId

(* The formula is that of the target on its path. *)
FormulaOfTarget(formula) ==
  /\ ~IsNull(formula)
  /\ formula.outputEntry.id = called.targetEntryId
  /\ IF called.targetConversionId = "direct" THEN formula.steps = <<>>
     ELSE /\ Len(formula.steps) > 0
          /\ formula.steps[1].rule.id = called.targetConversionId

(* No candidate is the target entry and none is taken by the automatic     *)
(* selection: each has the count 1 or a score that is not above -Infinity. *)
NoneSelectable(cands) ==
  \A i \in DOMAIN cands :
    /\ cands[i].entry.id # called.targetEntryId
    /\ \/ cands[i].rawCount = Int2Rat(1)
       \/ ~ScoreGt(scoreCandidate(cands[i].rawCount), NegInfScore)

AmongAlternatives(s) ==
  \E j \in DOMAIN s.alternatives : s.alternatives[j].entry = s.outputEntry

(* C27: for a positive input, with or without entry overrides, the chosen  *)
(* entry of every sentence is among the alternatives of the sentence.      *)
C27_ChosenAmongAlternatives ==
  (Answered /\ PositiveInput) =>
    \A i \in DOMAIN result.value : AmongAlternatives(result.value[i])

(* Some unit of the table has this dimension. *)
HasUnitOf(dimension) == \E u \in Range(units) : u.dimension = dimension

(* The candidates hold one found on the rule in reverse. *)
TraversedInReverse(cands, ruleId) ==
  \E i \in DOMAIN cands :
    /\ Len(cands[i].steps) = 1
    /\ cands[i].steps[1].rule.id = ruleId
    /\ cands[i].steps[1].reverse

(* C28: the fromDimension and the toDimension of every conversion rule are *)
(* each the dimension of some unit of the unit table, and so every         *)
(* bidirectional rule is traversed in reverse for an input in a unit of    *)
(* its target dimension, the electricity-cost rule for an input in USD.    *)
C28_RuleDimensionsHaveUnits ==
  (called.fn = "findCandidates" /\ PositiveInput) =>
    /\ \A r \in Range(conversionRules) :
         /\ HasUnitOf(r.fromDimension)
         /\ HasUnitOf(r.toDimension)
         /\ (r.bidirectional /\ InputDimension = r.toDimension) =>
              TraversedInReverse(result.value, r.id)
    /\ inputUnitId = "USD" =>
         TraversedInReverse(result.value, "energy-to-money-electricity")

(* The least amount formatDuration words in each unit from one minute on,  *)
(* with this least amount of months.                                       *)
AmountAtLeast(leastMonths) ==
  /\ result.value.unit \in {"minutes", "hours", "days", "months", "years"}
  /\ result.value.unit \in {"minutes", "hours", "years"} =>
       Ge(result.value.amount, Int2Rat(1))
  /\ result.value.unit = "days" => Ge(result.value.amount, Int2Rat(2))
  /\ result.value.unit = "months" => Ge(result.value.amount, leastMonths)

(* C29: for every hour count h >= 1/60 the amount formatDuration words is  *)
(* at least 1 in minutes, hours, months and years and at least 2 in days.  *)
C29_AmountAtLeastOne ==
  (called.fn = "formatDuration" /\ Ge(inputNumber, Rat(1, 60))) =>
    AmountAtLeast(Int2Rat(1))

(* C29 as it holds: at least 1 in minutes, hours and years, at least 2 in  *)
(* days, and at least 720/730 in months, which are below 1 exactly for     *)
(* the hour counts from 720 up to 730.                                     *)
C29_AmountAtLeastOneButMonths ==
  (called.fn = "formatDuration" /\ Ge(inputNumber, Rat(1, 60))) =>
    /\ AmountAtLeast(Rat(720, 730))
    /\ Lt(result.value.amount, Int2Rat(1)) <=>
         (Ge(inputNumber, Int2Rat(720)) /\ Lt(inputNumber, Int2Rat(730)))

(* 720 hours have been worded as 72/73 of a month. *)
C29_Witness ==
  /\ called.fn = "formatDuration"
  /\ inputNumber = Int2Rat(720)
  /\ WordedAs(Rat(72, 73), "months")

(* The URL holds the parameters of the state the hook is in. *)
UrlCurrent ==
  result.url = ParamsOf(UrlState(inputNumber, inputUnitId, factorOverrides))

(* One timer at most is set, the one timerRef holds. *)
AtMostOnePending ==
  /\ Cardinality(result.timers) <= 1
  /\ \A t \in result.timers : t.id = result.timerRef

(* A step that writes the URL writes the state of the hook. *)
WriteIsCurrent == result'.url # result.url => UrlCurrent'

(* C30: every state change clears the timer held before it sets a new one, *)
(* so that one write of the URL at most is pending; a write never records  *)
(* a state older than the latest change; and once the changes have         *)
(* stopped the URL eventually holds the current input value, unit id and   *)
(* factor overrides.                                                       *)
C30_DebouncedUrlWrite ==
  /\ []AtMostOnePending
  /\ [][WriteIsCurrent]_vars
  /\ <>[]UrlCurrent

(* A write is pending for a state changed since the last write: the URL    *)
(* holds parameters, and not those of the state the hook is in.            *)
C30_Witness ==
  /\ called.fn \in {"setInputValue", "setInputUnitId", "handleFactorChange"}
  /\ ~IsNull(result.url)
  /\ ~UrlCurrent
  /\ Cardinality(result.timers) = 1
  /\ result.timerRef > 2

====
